---- MODULE Spec2Model ----
(***************************************************************************)
(* A model of src/src/providers/PromptTowerProvider.ts: the selection tree *)
(* (items), the debounced, version-stamped token recount and the           *)
(* operations that mutate the selection.  Every await of the source is a   *)
(* suspension point: an operation is split into one action per resumption. *)
(***************************************************************************)
EXTENDS Integers, Sequences, FiniteSets, TLC

(* ------------------------------ bounds -------------------------------- *)
\* operations the user starts (a toggle, a toggle-all, a refresh, a listing)
\* and files the environment deletes, in one behaviour
MaxOps == 3
\* updateTokenCount runs suspended at the same time
MaxRuns == 2
\* toggleCheck calls suspended at the same time
MaxToggles == 2
\* files deleted on disk by the environment in one behaviour
MaxDeletes == 1
\* entries of a directory listing, and nodes of a children array, that are
\* drawn as inputs of the listing and of the sort
MaxEntries == 3
\* the pieces a drawn file content is made of
MaxPieces == 1
\* reloadPRs calls in one behaviour
MaxReloads == 1
\* characters of a prompt text, and calls of the history service in one
\* behaviour
MaxText == 2
MaxCalls == 3
\* characters of a drawn file name or pattern, and lines of a drawn
\* .gitignore or promptTower.ignore setting
MaxPattern == 3
MaxLines == 2
\* copyToClipboard handlers suspended at once, and webview panels created
MaxHandlers == 2
MaxPanels == 2

(* -------------------------- program constants ------------------------- *)
maxFileSizeWarningKB == 500
BatchSize == 50

(* ---------------------------- the workspace --------------------------- *)
\* A path is the sequence of its entry names below the workspace root.
Root == <<>>
AllDirs == { <<".git">>, <<"d">>, <<"d", "e">> }
AllFiles == { <<"b">>, <<"d", "e", "f">>, <<"d", "g">>, <<"d", "x.log">> }
AllPaths == AllDirs \cup AllFiles

\* fs.promises.stat(p).size / 1024
SizeKB(p) ==
  CASE p = <<"b">> -> 520
    [] p = <<"d", "e", "f">> -> 500
    [] p = <<"d", "g">> -> 600
    [] OTHER -> 1

\* encode(content).length of the file's content
Tokens(p) ==
  CASE p = <<"b">> -> 1
    [] p = <<"d", "e", "f">> -> 2
    [] p = <<"d", "g">> -> 4
    [] OTHER -> 3

\* the files whose content encode() rejects with "... is too large"
encoderRejects == { <<"d", "g">> }

\* entry names in the order readdir reports them, which is also the order of
\* String.localeCompare on these names
NameOrder == << ".git", "b", "d", "e", "f", "g", "x.log" >>

NameRank(n) == CHOOSE i \in 1..Len(NameOrder) : NameOrder[i] = n

\* path.basename
BaseName(p) == p[Len(p)]

\* path.join(dirPath, entry.name)
PathJoin(dir, n) == Append(dir, n)

\* a listing that still reports the entries that were deleted
ReadDirStale(dsk, dir) ==
  SelectSeq(NameOrder, LAMBDA n : Append(dir, n) \in AllPaths)

\* fs.promises.readdir(dirPath, {withFileTypes: true}) on the disk dsk
ReadDir(dsk, dir) ==
  SelectSeq(NameOrder, LAMBDA n : PathJoin(dir, n) \in dsk)

\* Dirent.isDirectory() / fs.statSync(p).isDirectory()
IsDirectory(p) == p \in AllDirs \cup {Root}

(* --------------------------- pattern matching ------------------------- *)
\* the characters of the strings that are matched
Chars(s) ==
  CASE s = ".git" -> << ".", "g", "i", "t" >>
    [] s = "node_modules" ->
         << "n", "o", "d", "e", "_", "m", "o", "d", "u", "l", "e", "s" >>
    [] s = ".vscode" -> << ".", "v", "s", "c", "o", "d", "e" >>
    [] s = "dist" -> << "d", "i", "s", "t" >>
    [] s = "out" -> << "o", "u", "t" >>
    [] s = "*.log" -> << "*", ".", "l", "o", "g" >>
    [] s = "x.log" -> << "x", ".", "l", "o", "g" >>
    [] s = "" -> << >>
    [] OTHER -> << s >>

StartsWith(s, pre) ==
  /\ Len(pre) <= Len(s)
  /\ SubSeq(s, 1, Len(pre)) = pre

EndsWith(s, suf) ==
  /\ Len(suf) <= Len(s)
  /\ SubSeq(s, Len(s) - Len(suf) + 1, Len(s)) = suf

\* the wildcard rule that drops the dot with the star
matchesCharsWithoutDot(f, p) ==
  IF p = << >> THEN FALSE
  ELSE IF f = p THEN TRUE
  ELSE IF EndsWith(p, << "/" >>) /\ f = SubSeq(p, 1, Len(p) - 1) THEN TRUE
  ELSE IF StartsWith(p, << "*", "." >>) THEN EndsWith(f, SubSeq(p, 3, Len(p)))
  ELSE FALSE

\* matchesPattern on the characters of its arguments
matchesChars(f, p) ==
  IF p = << >> THEN FALSE
  ELSE IF f = p THEN TRUE
  ELSE IF EndsWith(p, << "/" >>) /\ f = SubSeq(p, 1, Len(p) - 1) THEN TRUE
  ELSE IF StartsWith(p, << "*", "." >>) THEN EndsWith(f, SubSeq(p, 2, Len(p)))
  ELSE FALSE

matchesPattern(fileName, pattern) == matchesChars(Chars(fileName), Chars(pattern))

standardIgnores == << ".git", "node_modules", ".vscode", "dist", "out" >>
\* the lines of .gitignore after trimming, without blank lines and comments
getGitIgnorePatterns == << "dist" >>
\* promptTower.ignore after trimming, without the empty entries
manualIgnores == << "*.log", "out" >>

RECURSIVE Dedupe(_)
Dedupe(s) ==
  IF s = << >> THEN << >>
  ELSE LET init == Dedupe(SubSeq(s, 1, Len(s) - 1))
           x == s[Len(s)]
       IN  IF \E i \in 1..Len(init) : init[i] = x THEN init ELSE Append(init, x)

\* loadConfig: [...new Set([...standard, ...gitignore, ...manual])]
excludedPatterns == Dedupe(standardIgnores \o getGitIgnorePatterns \o manualIgnores)

\* a filter that excludes nothing
IsExcludedNever(n) == FALSE
IsExcluded(n) ==
  \E i \in 1..Len(excludedPatterns) : matchesPattern(n, excludedPatterns[i])

(* ------------------------------- state -------------------------------- *)
VARIABLES
  disk,          \* the paths that exist on disk
  ops,           \* how many operations were started
  deletes,       \* how many files the environment has deleted
  fileStates,    \* context.globalState "fileStates": path -> isChecked
  items,         \* Map<string, FileItem> in insertion order
  totalTokenCount,
  isCountingTokens,
  currentTokenCalculationVersion,
  debounceTimeout, \* the number of armed timeouts
  burst,         \* debouncedUpdateTokenCount calls since a timeout last fired
  runs,          \* the suspended updateTokenCount calls
  toggles,       \* the suspended toggleCheck calls
  ev             \* what the last step did (its operation and its publishes)

vars == << disk, ops, deletes, fileStates, items,
           totalTokenCount, isCountingTokens, currentTokenCalculationVersion,
           debounceTimeout, burst, runs, toggles, ev >>

(* ------------------------------ the map ------------------------------- *)
\* new FileItem(label, collapsibleState, filePath, isChecked)
FileItem(p, isDir, checked) ==
  [ filePath |-> p, isDir |-> isDir, isChecked |-> checked ]

\* FileItem.contextValue
contextValue(item) == IF item.isDir THEN "folder" ELSE "file"

Keys(its) == { its[i].filePath : i \in 1..Len(its) }
Has(its, p) == p \in Keys(its)
IndexOf(its, p) == CHOOSE i \in 1..Len(its) : its[i].filePath = p
Get(its, p) == its[IndexOf(its, p)]

\* Map.set: an existing key keeps its position, a new one goes last
MapSet(its, item) ==
  IF Has(its, item.filePath)
  THEN [ its EXCEPT ![IndexOf(its, item.filePath)] = item ]
  ELSE Append(its, item)

\* a delete that leaves the map as it is
MapDeleteNot(its, p) == its
\* Map.delete
MapDelete(its, p) == SelectSeq(its, LAMBDA it : it.filePath # p)

\* item.updateCheckState(checked) on the node stored for p
UpdateCheckState(its, p, checked) ==
  [ i \in 1..Len(its) |->
      IF its[i].filePath = p THEN [ its[i] EXCEPT !.isChecked = checked ] ELSE its[i] ]

\* the paths whose node is checked
Checked(its) == { its[i].filePath : i \in { j \in 1..Len(its) : its[j].isChecked } }

\* the filter without fs.existsSync(item.filePath)
getCheckedFilesUnverified(its, dsk) ==
  LET sel == SelectSeq(its, LAMBDA it : it.isChecked /\ contextValue(it) = "file")
  IN  [ i \in 1..Len(sel) |-> sel[i].filePath ]

getCheckedFiles(its, dsk) ==
  LET sel == SelectSeq(its, LAMBDA it :
                 it.isChecked /\ contextValue(it) = "file" /\ it.filePath \in dsk)
  IN  [ i \in 1..Len(sel) |-> sel[i].filePath ]

RECURSIVE SumTokens(_)
SumTokens(S) ==
  IF S = {} THEN 0
  ELSE LET p == CHOOSE x \in S : TRUE IN Tokens(p) + SumTokens(S \ {p})

Range(s) == { s[i] : i \in 1..Len(s) }

\* promptTower.persistState
persistState == TRUE

(* ---------------------------- persistence ----------------------------- *)
\* savePersistedState: the state of every node that exists on disk
savePersistedState(its, dsk) ==
  IF ~persistState THEN << >>
  ELSE LET kept == SelectSeq(its, LAMBDA it : it.filePath \in dsk)
       IN  [ i \in 1..Len(kept) |->
               [ filePath |-> kept[i].filePath, isChecked |-> kept[i].isChecked ] ]

\* loadPersistedState: one node per persisted path that still exists
loadPersistedState(state, dsk) ==
  IF ~persistState THEN << >>
  ELSE LET kept == SelectSeq(state, LAMBDA e : e.filePath \in dsk)
       IN  [ i \in 1..Len(kept) |->
               FileItem(kept[i].filePath, IsDirectory(kept[i].filePath),
                        kept[i].isChecked) ]

(* ----------------------------- publishing ----------------------------- *)
\* a payload that carries no count
PayloadWithoutCount(count, counting) == [ count |-> 0, isCounting |-> counting ]
\* the payload notifyTokenUpdate fires
Payload(count, counting) == [ count |-> count, isCounting |-> counting ]

\* a toggleCheck call: its locals, the pending awaits of its cascade (one frame
\* per toggleDirectoryChildren call, innermost last), and what it has done so
\* far: log lists its checkFileSize calls and its state changes in order,
\* declined the files the user declined, clean tells that no other operation
\* changed the tree or the disk meanwhile, mutated that the call changed
\* which nodes are checked, sel0 the paths that were checked when the call
\* started, prev the call that completed right before this one started, if
\* that was a toggleCheck on the same node
ToggleRecord(p, isDir, newState, sel0, prev) ==
  [ path |-> p, isDir |-> isDir, newState |-> newState, originalState |-> ~newState,
    userCancelled |-> FALSE, childrenCancelled |-> FALSE,
    stack |-> << >>, log |-> << >>, declined |-> {}, clean |-> TRUE,
    mutated |-> FALSE, sel0 |-> sel0, prev |-> prev ]

NoPrev == [ ok |-> FALSE, sel0 |-> {}, originalState |-> FALSE,
            userCancelled |-> FALSE ]

NoToggle == ToggleRecord(Root, TRUE, FALSE, {}, NoPrev)

\* the record of a step: the operation, the node or run it acted for, the
\* payloads it published, what it returned (res, list), the files a run
\* started with and those it counted, and n, the calls a timeout answered or
\* the nodes toggleAllFiles found checked
EvBase(op) ==
  [ op |-> op, path |-> Root, ver |-> 0, pubs |-> << >>, files |-> << >>,
    counted |-> {}, res |-> "", n |-> 0, list |-> << >>, t |-> NoToggle ]

RemoveAt(s, i) == SubSeq(s, 1, i - 1) \o SubSeq(s, i + 1, Len(s))

\* a suspended toggleCheck notes that another operation changed the tree or
\* the disk under it
Touch(tg, changed) ==
  IF changed THEN [ i \in 1..Len(tg) |-> [ tg[i] EXCEPT !.clean = FALSE ] ] ELSE tg

\* the toggleCheck call on p that the last step completed, undisturbed
PrevToggle(p) ==
  IF /\ ev.op = "toggleCheck"
     /\ ev.res \in { "done", "cancelled", "unchanged" }
     /\ ev.path = p
     /\ ev.t.clean
  THEN [ ok |-> TRUE, sel0 |-> ev.t.sel0, originalState |-> ev.t.originalState,
         userCancelled |-> ev.t.userCancelled ]
  ELSE NoPrev

NewToggle(p, isDir, newState) ==
  ToggleRecord(p, isDir, newState, Checked(items), PrevToggle(p))

(* -------------------------- initial state ----------------------------- *)
\* the state after the constructor: loadConfig, loadPersistedState on an
\* empty globalState, debouncedUpdateTokenCount(100)
Init ==
  /\ disk = AllPaths
  /\ ops = 0
  /\ deletes = 0
  /\ fileStates = << >>
  /\ items = << >>
  /\ totalTokenCount = 0
  /\ isCountingTokens = FALSE
  /\ currentTokenCalculationVersion = 1
  /\ debounceTimeout = 1
  /\ burst = 1
  /\ runs = << >>
  /\ toggles = << >>
  /\ ev = EvBase("constructor")

\* an operation is started within the budget
StartOp ==
  /\ ops < MaxOps
  /\ ops' = ops + 1

(* ------------------------- the recount engine ------------------------- *)
\* clearTimeout(this.debounceTimeout); ... this.debounceTimeout = setTimeout(...)
ArmKeepingOld(pending) == pending + 1
Arm(pending) == 1

\* this.currentTokenCalculationVersion++
InvalidateNot(v) == v
Invalidate(v) == v + 1

\* k calls of debouncedUpdateTokenCount in one synchronous stretch
RECURSIVE Debounce(_, _)
Debounce(k, s) ==
  IF k = 0 THEN s
  ELSE Debounce(k - 1, [ version |-> Invalidate(s.version),
                         timeout |-> Arm(s.timeout) ])

Debounced(k) ==
  LET s == Debounce(k, [ version |-> currentTokenCalculationVersion,
                         timeout |-> debounceTimeout ])
  IN  /\ currentTokenCalculationVersion' = s.version
      /\ debounceTimeout' = s.timeout
      /\ burst' = burst + k

\* the for loop of updateTokenCount from the file at r.idx up to the next
\* readFile, or to the end of the run
\* the loop without the "Cancellation Check (Start of Loop)"
RECURSIVE RunLoopNoLoopCheck(_, _, _, _)
RunLoopNoLoopCheck(r, its, dsk, live) ==
  IF r.idx > Len(r.files)
  THEN [ kind |-> IF r.ver # live THEN "cancelled" ELSE "final",
         run |-> r, items |-> its ]
  ELSE IF r.files[r.idx] \notin dsk
  THEN RunLoopNoLoopCheck([ r EXCEPT !.idx = @ + 1 ],
                          MapDelete(its, r.files[r.idx]), dsk, live)
  ELSE [ kind |-> "read", run |-> r, items |-> its ]

\* the loop without the "Final Cancellation Check"
RECURSIVE RunLoopNoFinalCheck(_, _, _, _)
RunLoopNoFinalCheck(r, its, dsk, live) ==
  IF r.idx > Len(r.files)
  THEN [ kind |-> "final", run |-> r, items |-> its ]
  ELSE IF r.ver # live
  THEN [ kind |-> "cancelled", run |-> r, items |-> its ]
  ELSE IF r.files[r.idx] \notin dsk
  THEN RunLoopNoFinalCheck([ r EXCEPT !.idx = @ + 1 ],
                           MapDelete(its, r.files[r.idx]), dsk, live)
  ELSE [ kind |-> "read", run |-> r, items |-> its ]

RECURSIVE RunLoop(_, _, _, _)
RunLoop(r, its, dsk, live) ==
  IF r.idx > Len(r.files)
  THEN [ kind |-> IF r.ver # live THEN "cancelled" ELSE "final",
         run |-> r, items |-> its ]
  ELSE IF r.ver # live
  THEN [ kind |-> "cancelled", run |-> r, items |-> its ]
  ELSE IF r.files[r.idx] \notin dsk
  THEN RunLoop([ r EXCEPT !.idx = @ + 1 ], MapDelete(its, r.files[r.idx]), dsk, live)
  ELSE [ kind |-> "read", run |-> r, items |-> its ]

\* updateTokenCount up to its first await
updateTokenCount ==
  LET calculationVersion == currentTokenCalculationVersion
      checkedFiles == getCheckedFiles(items, disk)
  IN  IF checkedFiles = << >>
      THEN /\ totalTokenCount' = 0
           /\ isCountingTokens' = FALSE
           /\ runs' = runs
           /\ ev' = [ EvBase("updateTokenCount") EXCEPT
                        !.ver = calculationVersion, !.res = "empty", !.n = burst,
                        !.pubs = << Payload(0, FALSE) >> ]
      ELSE /\ Len(runs) < MaxRuns
           /\ totalTokenCount' = totalTokenCount
           /\ isCountingTokens' = TRUE
           /\ runs' = Append(runs,
                [ ver |-> calculationVersion, files |-> checkedFiles, idx |-> 1,
                  total |-> 0, processed |-> 0, pc |-> "read", counted |-> {},
                  overlap |-> runs # << >> ])
           /\ ev' = [ EvBase("updateTokenCount") EXCEPT
                        !.ver = calculationVersion, !.res = "started", !.n = burst,
                        !.files = checkedFiles,
                        !.pubs = << Payload(totalTokenCount, TRUE) >> ]

\* the debounce timeout fires
TimerFire ==
  /\ debounceTimeout > 0
  /\ debounceTimeout' = debounceTimeout - 1
  /\ burst' = 0
  /\ updateTokenCount
  /\ UNCHANGED << disk, ops, deletes, fileStates,
                  items, currentTokenCalculationVersion, toggles >>

\* the read that counts a file the tokenizer rejected
AfterReadCountsRejected(r, dsk) ==
  LET f == r.files[r.idx]
  IN  IF f \in dsk
      THEN [ r EXCEPT !.total = @ + Tokens(f), !.processed = @ + 1,
                      !.counted = @ \cup {f}, !.idx = @ + 1 ]
      ELSE [ r EXCEPT !.idx = @ + 1 ]

\* what the awaited readFile + encode of r's current file do to the run
AfterRead(r, dsk) ==
  LET f == r.files[r.idx]
  IN  IF f \in dsk /\ f \notin encoderRejects
      THEN [ r EXCEPT !.total = @ + Tokens(f), !.processed = @ + 1,
                      !.counted = @ \cup {f}, !.idx = @ + 1 ]
      ELSE [ r EXCEPT !.idx = @ + 1 ]

\* run i resumes from its await and goes on to its next await or its end
RunResume(i) ==
  LET r == runs[i]
      live == currentTokenCalculationVersion
      f == r.files[r.idx]
      enoent == r.pc = "read" /\ f \notin disk
      r1 == IF r.pc = "read" THEN AfterRead(r, disk) ELSE r
      its1 == IF enoent THEN MapDelete(items, f) ELSE items
      yield == /\ r.pc = "read"
               /\ r1.processed # r.processed
               /\ r1.processed % BatchSize = 0
      out == IF yield THEN [ kind |-> "yield", run |-> r1, items |-> its1 ]
             ELSE IF r.pc = "yield" /\ r.ver # live
             THEN [ kind |-> "cancelled", run |-> r1, items |-> its1 ]
             ELSE RunLoop(r1, its1, disk, live)
  IN  /\ items' = out.items
      /\ toggles' = Touch(toggles, out.items # items)
      /\ CASE out.kind = "final" ->
                /\ totalTokenCount' = out.run.total
                /\ isCountingTokens' = FALSE
                /\ runs' = RemoveAt(runs, i)
                /\ ev' = [ EvBase("run") EXCEPT
                             !.ver = r.ver, !.res = "final", !.files = r.files,
                             !.counted = out.run.counted,
                             !.list = << r.overlap >>,
                             !.pubs = << Payload(out.run.total, FALSE) >> ]
           [] out.kind = "cancelled" ->
                /\ runs' = RemoveAt(runs, i)
                /\ ev' = [ EvBase("run") EXCEPT
                             !.ver = r.ver, !.res = "cancelled", !.files = r.files ]
                /\ UNCHANGED << totalTokenCount, isCountingTokens >>
           [] OTHER ->
                /\ runs' = [ runs EXCEPT ![i] = [ out.run EXCEPT !.pc = out.kind ] ]
                /\ ev' = [ EvBase("run") EXCEPT
                             !.ver = r.ver, !.res = "suspended", !.files = r.files ]
                /\ UNCHANGED << totalTokenCount, isCountingTokens >>
      /\ UNCHANGED << disk, ops, deletes, fileStates,
                      currentTokenCalculationVersion, debounceTimeout, burst >>

(* ------------------------- bulk operations ---------------------------- *)
\* Array.from(this.items.values()).every((item) => item.isChecked)
AnyChecked(its) == \E i \in 1..Len(its) : its[i].isChecked
AllChecked(its) == \A i \in 1..Len(its) : its[i].isChecked

toggleAllFiles ==
  LET allChecked == AllChecked(items)
      newState == ~allChecked
      its2 == [ i \in 1..Len(items) |-> [ items[i] EXCEPT !.isChecked = newState ] ]
  IN  /\ StartOp
      /\ items' = its2
      /\ fileStates' = IF persistState THEN savePersistedState(its2, disk)
                       ELSE fileStates
      /\ toggles' = Touch(toggles, TRUE)
      /\ IF ~newState
         THEN /\ currentTokenCalculationVersion' =
                   Invalidate(currentTokenCalculationVersion)
              /\ totalTokenCount' = 0
              /\ isCountingTokens' = FALSE
              /\ UNCHANGED << debounceTimeout, burst >>
              /\ ev' = [ EvBase("toggleAllFiles") EXCEPT
                           !.res = "off", !.n = Cardinality(Checked(items)),
                           !.pubs = << Payload(0, FALSE) >> ]
         ELSE /\ Debounced(1)
              /\ ev' = [ EvBase("toggleAllFiles") EXCEPT
                           !.res = "on", !.n = Cardinality(Checked(items)) ]
              /\ UNCHANGED << totalTokenCount, isCountingTokens >>
      /\ UNCHANGED << disk, deletes, runs >>

refresh ==
  /\ StartOp
  /\ items' = loadPersistedState(fileStates, disk)
  /\ Debounced(1)
  /\ toggles' = Touch(toggles, TRUE)
  /\ ev' = EvBase("refresh")
  /\ UNCHANGED << disk, deletes, fileStates,
                  totalTokenCount, isCountingTokens, runs >>

(* ------------------------------ listing ------------------------------- *)
\* the loop that gives a known path the state of the listed directory again
RECURSIVE ListEntriesResetsKnown(_, _, _, _)
ListEntriesResetsKnown(dir, entries, parentChecked, acc) ==
  IF entries = << >> THEN acc
  ELSE LET n == Head(entries)
           filePath == PathJoin(dir, n)
           rest == Tail(entries)
           item == FileItem(filePath, IsDirectory(filePath), parentChecked)
       IN  IF IsExcluded(n)
           THEN ListEntriesResetsKnown(dir, rest, parentChecked, acc)
           ELSE ListEntriesResetsKnown(dir, rest, parentChecked,
                  [ items |-> MapSet(acc.items, item),
                    children |-> Append(acc.children, item),
                    calls |-> acc.calls + (IF item.isChecked THEN 1 ELSE 0) ])

\* the loop that never calls debouncedUpdateTokenCount
RECURSIVE ListEntriesQuiet(_, _, _, _)
ListEntriesQuiet(dir, entries, parentChecked, acc) ==
  IF entries = << >> THEN acc
  ELSE LET n == Head(entries)
           filePath == PathJoin(dir, n)
           rest == Tail(entries)
           known == Has(acc.items, filePath)
           item == FileItem(filePath, IsDirectory(filePath),
                            IF known THEN Get(acc.items, filePath).isChecked
                            ELSE parentChecked)
       IN  IF IsExcluded(n) THEN ListEntriesQuiet(dir, rest, parentChecked, acc)
           ELSE ListEntriesQuiet(dir, rest, parentChecked,
                  [ items |-> MapSet(acc.items, item),
                    children |-> Append(acc.children, item),
                    calls |-> 0 ])

\* the loop of getChildren over the entries: the map after it, the children
\* in entry order, and how often debouncedUpdateTokenCount was called
RECURSIVE ListEntries(_, _, _, _)
ListEntries(dir, entries, parentChecked, acc) ==
  IF entries = << >> THEN acc
  ELSE LET n == Head(entries)
           filePath == PathJoin(dir, n)
           rest == Tail(entries)
       IN  IF IsExcluded(n) THEN ListEntries(dir, rest, parentChecked, acc)
           ELSE IF ~Has(acc.items, filePath)
           THEN LET item == FileItem(filePath, IsDirectory(filePath), parentChecked)
                IN  ListEntries(dir, rest, parentChecked,
                      [ items |-> MapSet(acc.items, item),
                        children |-> Append(acc.children, item),
                        calls |-> acc.calls + (IF item.isChecked THEN 1 ELSE 0) ])
           ELSE LET newItem == FileItem(filePath, IsDirectory(filePath),
                                        Get(acc.items, filePath).isChecked)
                IN  ListEntries(dir, rest, parentChecked,
                      [ items |-> MapSet(acc.items, newItem),
                        children |-> Append(acc.children, newItem),
                        calls |-> acc.calls ])

\* the comparator without "Folders before files"
SortsBeforeByLabel(a, b) ==
  NameRank(BaseName(a.filePath)) < NameRank(BaseName(b.filePath))

\* a.collapsibleState / a.label.localeCompare(b.label): a sorts before b
SortsBefore(a, b) ==
  IF a.isDir # b.isDir THEN a.isDir
  ELSE NameRank(BaseName(a.filePath)) < NameRank(BaseName(b.filePath))

\* children.sort(...)
RECURSIVE SortChildren(_)
SortChildren(s) ==
  IF s = << >> THEN << >>
  ELSE LET m == CHOOSE i \in 1..Len(s) :
                  \A j \in 1..Len(s) : j = i \/ SortsBefore(s[i], s[j])
       IN  << s[m] >> \o SortChildren(RemoveAt(s, m))

\* the paths of the entries readdir reported for dir
EntryPaths(dir, entries) == [ i \in 1..Len(entries) |-> PathJoin(dir, entries[i]) ]

\* getChildren(element), element the node of dir, or undefined for the root.
\* What precedes the awaited readdir only reads, and a directory is never
\* deleted here, so the call is one step, taken when readdir returns.
getChildren(dir) ==
  /\ StartOp
  /\ dir = Root \/ (Has(items, dir) /\ Get(items, dir).isDir)
  /\ IF dir \notin disk \cup {Root} \/ ~IsDirectory(dir)
     THEN /\ items' = MapDelete(items, dir)
          /\ Debounced(0)
          /\ ev' = [ EvBase("getChildren") EXCEPT !.path = dir ]
     ELSE LET parentChecked == IF dir = Root THEN FALSE ELSE Get(items, dir).isChecked
              out == ListEntries(dir, ReadDir(disk, dir), parentChecked,
                       [ items |-> items, children |-> << >>, calls |-> 0 ])
          IN  /\ items' = out.items
              /\ Debounced(out.calls)
              /\ ev' = [ EvBase("getChildren") EXCEPT
                           !.path = dir, !.files = EntryPaths(dir, ReadDir(disk, dir)),
                           !.list = SortChildren(out.children) ]
  /\ toggles' = Touch(toggles, items' # items)
  /\ UNCHANGED << disk, deletes, fileStates,
                  totalTokenCount, isCountingTokens, runs >>

(* ------------------------------ toggling ------------------------------ *)
\* checkFileSize(filePath): "cancelled" when it throws the user's
\* cancellation, "ok" when it returns; a failing stat is swallowed
checkFileSize(filePath, dsk, answer) ==
  IF filePath \notin dsk THEN "ok"
  ELSE IF SizeKB(filePath) > maxFileSizeWarningKB
  THEN IF answer = "Select Anyway" THEN "ok" ELSE "cancelled"
  ELSE "ok"

Answers == { "Select Anyway", "Cancel" }

LogGate(p) == [ k |-> "gate", p |-> p, v |-> FALSE ]
LogSet(p, v) == [ k |-> "set", p |-> p, v |-> v ]

\* the cascade that leaves the nodes it already knows as they are
FindOrCreateOnlyNew(its, filePath, state) ==
  IF ~Has(its, filePath)
  THEN MapSet(its, FileItem(filePath, IsDirectory(filePath), state))
  ELSE its

\* toggleDirectoryChildren, "Find or Create Item": the node of filePath gets
\* the state `state`
FindOrCreate(its, filePath, state) ==
  IF ~Has(its, filePath)
  THEN MapSet(its, FileItem(filePath, IsDirectory(filePath), state))
  ELSE UpdateCheckState(its, filePath, state)

\* "File Size Check (only when checking ON a FILE)"
NeedsGateNever(checked, filePath) == FALSE
NeedsGate(checked, filePath) == checked /\ ~IsDirectory(filePath)

Frame(dir) ==
  [ dir |-> dir, entries |-> << >>, wait |-> "readdir", cancelled |-> FALSE ]

\* the entry loops of the nested toggleDirectoryChildren calls of c.t, from the
\* innermost, up to the next await (a checkFileSize or a readdir) or to the
\* return of the outermost call (c.t.stack empty)
RECURSIVE CascadeLoop(_)
CascadeLoop(c) ==
  LET t == c.t
      checked == t.newState
      top == Len(t.stack)
      fr == t.stack[top]
  IN  IF fr.entries = << >>
      THEN IF top = 1
           THEN [ c EXCEPT !.t.stack = << >>, !.t.childrenCancelled = fr.cancelled ]
           ELSE CascadeLoop([ c EXCEPT !.t.stack =
                  [ SubSeq(t.stack, 1, top - 1) EXCEPT
                      ![top - 1].cancelled = @ \/ fr.cancelled ] ])
      ELSE LET n == Head(fr.entries)
               filePath == PathJoin(fr.dir, n)
           IN  IF IsExcluded(n)
               THEN CascadeLoop([ c EXCEPT !.t.stack[top].entries = Tail(@) ])
               ELSE IF NeedsGate(checked, filePath)
               THEN [ c EXCEPT !.t.stack[top].wait = "gate",
                               !.t.log = Append(@, LogGate(filePath)) ]
               ELSE LET c1 == [ c EXCEPT
                                  !.items = FindOrCreate(@, filePath, checked),
                                  !.t.log = Append(@, LogSet(filePath, checked)),
                                  !.t.stack[top].entries = Tail(@) ]
                    IN  IF ~IsDirectory(filePath) THEN CascadeLoop(c1)
                        ELSE IF filePath \notin disk THEN CascadeLoop(c1)
                        ELSE [ c1 EXCEPT !.t.stack = Append(@, Frame(filePath)) ]

\* the cascade that checks a file although the user declined it
CascadeStepIgnoresDecline(c, answer) ==
  LET t == c.t
      top == Len(t.stack)
      fr == t.stack[top]
  IN  IF fr.wait = "readdir"
      THEN CascadeLoop([ c EXCEPT
             !.t.stack[top] = [ fr EXCEPT !.wait = "loop",
                                          !.entries = ReadDir(disk, fr.dir) ] ])
      ELSE LET filePath == PathJoin(fr.dir, Head(fr.entries))
               fileSpecificCancellation ==
                 checkFileSize(filePath, disk, answer) = "cancelled"
           IN  CascadeLoop([ c EXCEPT
                 !.items = FindOrCreate(@, filePath, t.newState),
                 !.t.log = Append(@, LogSet(filePath, t.newState)),
                 !.t.declined = IF fileSpecificCancellation
                                THEN @ \cup {filePath} ELSE @,
                 !.t.stack[top] = [ fr EXCEPT
                    !.wait = "loop", !.entries = Tail(@),
                    !.cancelled = @ \/ fileSpecificCancellation ] ])

\* the awaited readdir or checkFileSize of the innermost call returns
CascadeStep(c, answer) ==
  LET t == c.t
      top == Len(t.stack)
      fr == t.stack[top]
  IN  IF fr.wait = "readdir"
      THEN CascadeLoop([ c EXCEPT
             !.t.stack[top] = [ fr EXCEPT !.wait = "loop",
                                          !.entries = ReadDir(disk, fr.dir) ] ])
      ELSE LET filePath == PathJoin(fr.dir, Head(fr.entries))
               fileSpecificCancellation ==
                 checkFileSize(filePath, disk, answer) = "cancelled"
               state == IF fileSpecificCancellation THEN FALSE ELSE t.newState
           IN  CascadeLoop([ c EXCEPT
                 !.items = FindOrCreate(@, filePath, state),
                 !.t.log = Append(@, LogSet(filePath, state)),
                 !.t.declined = IF fileSpecificCancellation
                                THEN @ \cup {filePath} ELSE @,
                 !.t.stack[top] = [ fr EXCEPT
                    !.wait = "loop", !.entries = Tail(@),
                    !.cancelled = @ \/ fileSpecificCancellation ] ])

\* the call t after a step of its own that turned the map into its
Stepped(t, its) == [ t EXCEPT !.mutated = @ \/ Checked(its) # Checked(items) ]

\* "Trigger Token Update (only if state wasn't cancelled back to original)
\* Or if children were cancelled"
ShouldInvalidateAlways(t) == TRUE
ShouldInvalidate(t) == t.newState # t.originalState \/ t.childrenCancelled

\* toggleCheck from "Only proceed if ..." to its end, the cascade done; its
\* is the map with the updateCheckState of the toggled node already applied
ToggleFinish(t, its, others) ==
  IF t.newState # t.originalState \/ t.userCancelled
  THEN LET its2 == IF Has(its, t.path) THEN its
                   ELSE Append(its, FileItem(t.path, t.isDir, t.newState))
       IN  /\ items' = its2
           /\ fileStates' = savePersistedState(its2, disk)
           /\ Debounced(IF ShouldInvalidate(t) THEN 1 ELSE 0)
           /\ toggles' = Touch(others, its2 # items)
           /\ ev' = [ EvBase("toggleCheck") EXCEPT
                        !.path = t.path, !.t = Stepped(t, its2),
                        !.res = IF t.userCancelled THEN "cancelled" ELSE "done" ]
  ELSE /\ items' = its
       /\ Debounced(0)
       /\ toggles' = Touch(others, its # items)
       /\ ev' = [ EvBase("toggleCheck") EXCEPT
                    !.path = t.path, !.t = Stepped(t, its), !.res = "unchanged" ]
       /\ UNCHANGED fileStates

\* item.updateCheckState(newState) of toggleCheck
ApplyToggled(its, t) ==
  IF Has(its, t.path) THEN UpdateCheckState(its, t.path, t.newState) ELSE its

\* toggleCheck(item) up to its first await, item the node stored for p
toggleCheck(p) ==
  /\ StartOp
  /\ Has(items, p)
  /\ LET item == Get(items, p)
         t == NewToggle(p, item.isDir, ~item.isChecked)
     IN  IF t.newState /\ contextValue(item) = "file"
         THEN \* await this.checkFileSize(item.filePath)
              /\ Len(toggles) < MaxToggles
              /\ toggles' = Append(toggles,
                              [ t EXCEPT !.log = << LogGate(p) >> ])
              /\ ev' = [ EvBase("toggleCheck") EXCEPT !.path = p, !.res = "gate" ]
              /\ UNCHANGED << items, fileStates, currentTokenCalculationVersion,
                              debounceTimeout, burst >>
         ELSE LET t1 == [ t EXCEPT !.log = << LogSet(p, t.newState) >> ]
                  its1 == ApplyToggled(items, t1)
              IN  IF contextValue(item) = "folder" /\ p \in disk
                  THEN \* toggleDirectoryChildren awaits readdir
                       /\ Len(toggles) < MaxToggles
                       /\ items' = its1
                       /\ toggles' = Append(Touch(toggles, TRUE),
                                       [ Stepped(t1, its1) EXCEPT
                                           !.stack = << Frame(p) >> ])
                       /\ ev' = [ EvBase("toggleCheck") EXCEPT
                                    !.path = p, !.res = "cascade" ]
                       /\ UNCHANGED << fileStates, currentTokenCalculationVersion,
                                       debounceTimeout, burst >>
                  ELSE ToggleFinish(t1, its1, toggles)
  /\ UNCHANGED << disk, deletes, totalTokenCount,
                  isCountingTokens, runs >>

\* the suspended toggleCheck i resumes: its checkFileSize returns or throws
\* (answer is what the user picks when the warning is shown), or an await of
\* its cascade returns
ToggleResume(i, answer) ==
  LET t == toggles[i]
      others == RemoveAt(toggles, i)
  IN  /\ IF t.stack = << >>
         THEN LET cancelled == checkFileSize(t.path, disk, answer) = "cancelled"
                  t1 == IF cancelled
                        THEN [ t EXCEPT !.newState = FALSE, !.userCancelled = TRUE,
                                        !.declined = {t.path},
                                        !.log = Append(@, LogSet(t.path, FALSE)) ]
                        ELSE [ t EXCEPT !.log = Append(@, LogSet(t.path, t.newState)) ]
              IN  ToggleFinish(t1,
                    MapSet(items, FileItem(t1.path, t1.isDir, t1.newState)),
                    others)
         ELSE LET c == CascadeStep([ t |-> t, items |-> items ], answer)
              IN  IF c.t.stack = << >>
                  THEN ToggleFinish(c.t, c.items, others)
                  ELSE /\ items' = c.items
                       /\ toggles' = [ j \in 1..Len(toggles) |->
                                         IF j = i THEN Stepped(c.t, c.items)
                                         ELSE Touch(<< toggles[j] >>,
                                                    c.items # items)[1] ]
                       /\ ev' = [ EvBase("toggleCheck") EXCEPT
                                    !.path = t.path, !.res = "cascade" ]
                       /\ UNCHANGED << fileStates, currentTokenCalculationVersion,
                                       debounceTimeout, burst >>
      /\ UNCHANGED << disk, ops, deletes,
                      totalTokenCount, isCountingTokens, runs >>

(* --------------------------- the environment -------------------------- *)
\* a file is deleted on disk by something outside the program
DeleteFile(p) ==
  /\ StartOp
  /\ p \in disk
  /\ deletes < MaxDeletes
  /\ disk' = disk \ {p}
  /\ deletes' = deletes + 1
  /\ toggles' = Touch(toggles, TRUE)
  /\ ev' = [ EvBase("deleteFile") EXCEPT !.path = p ]
  /\ UNCHANGED << fileStates, items, totalTokenCount,
                  isCountingTokens, currentTokenCalculationVersion,
                  debounceTimeout, burst, runs >>

(* --------------------------- specification --------------------------- *)
Next ==
  \/ TimerFire
  \/ \E i \in 1..Len(runs) : RunResume(i)
  \/ toggleAllFiles
  \/ refresh
  \/ \E dir \in AllDirs \cup {Root} : getChildren(dir)
  \/ \E p \in AllPaths : toggleCheck(p)
  \/ \E i \in 1..Len(toggles), answer \in Answers : ToggleResume(i, answer)
  \/ \E p \in AllFiles : DeleteFile(p)

Spec == Init /\ [][Next]_vars

\* context.globalState "fileStates" as an earlier session left it
PersistedFileStates ==
  << [ filePath |-> << "b" >>, isChecked |-> TRUE ],
     [ filePath |-> << "d", "e", "f" >>, isChecked |-> TRUE ] >>

\* the state after the constructor when the earlier session left a selection
InitRestored ==
  /\ disk = AllPaths
  /\ ops = 0
  /\ deletes = 0
  /\ fileStates = PersistedFileStates
  /\ items = loadPersistedState(PersistedFileStates, AllPaths)
  /\ totalTokenCount = 0
  /\ isCountingTokens = FALSE
  /\ currentTokenCalculationVersion = 1
  /\ debounceTimeout = 1
  /\ burst = 1
  /\ runs = << >>
  /\ toggles = << >>
  /\ ev = EvBase("constructor")

SpecRestored == InitRestored /\ [][Next]_vars

(* ---------------------- a selection of many files --------------------- *)
\* the names of the files of a directory "many": one more than a batch
ManyNames ==
  << "f01", "f02", "f03", "f04", "f05", "f06", "f07", "f08",
     "f09", "f10", "f11", "f12", "f13", "f14", "f15", "f16",
     "f17", "f18", "f19", "f20", "f21", "f22", "f23", "f24",
     "f25", "f26", "f27", "f28", "f29", "f30", "f31", "f32",
     "f33", "f34", "f35", "f36", "f37", "f38", "f39", "f40",
     "f41", "f42", "f43", "f44", "f45", "f46", "f47", "f48",
     "f49", "f50", "f51" >>

ManyFiles == { << "many", ManyNames[i] >> : i \in 1..Len(ManyNames) }

\* the file of "many" that the environment may delete
ManyDeletable == { << "many", "f01" >> }

\* context.globalState "fileStates" of a session that had them all checked
ManyFileStates ==
  [ i \in 1..Len(ManyNames) |->
      [ filePath |-> << "many", ManyNames[i] >>, isChecked |-> TRUE ] ]

\* the state after the constructor on that workspace
InitMany ==
  /\ disk = AllPaths \cup ManyFiles
  /\ ops = 0
  /\ deletes = 0
  /\ fileStates = ManyFileStates
  /\ items = loadPersistedState(ManyFileStates, ManyFiles)
  /\ totalTokenCount = 0
  /\ isCountingTokens = FALSE
  /\ currentTokenCalculationVersion = 1
  /\ debounceTimeout = 1
  /\ burst = 1
  /\ runs = << >>
  /\ toggles = << >>
  /\ ev = EvBase("constructor")

\* the recount, a refresh that invalidates it, and files that vanish
NextMany ==
  \/ TimerFire
  \/ \E i \in 1..Len(runs) : RunResume(i)
  \/ refresh
  \/ \E p \in ManyDeletable : DeleteFile(p)

SpecMany == InitMany /\ [][NextMany]_vars

(* ------------------- a file below an excluded directory --------------- *)
\* the workspace with a file in .git
GitFile == << ".git", "g" >>

\* the state after the constructor on that workspace, nothing persisted
InitIgnored ==
  /\ disk = AllPaths \cup { GitFile }
  /\ ops = 0
  /\ deletes = 0
  /\ fileStates = << >>
  /\ items = << >>
  /\ totalTokenCount = 0
  /\ isCountingTokens = FALSE
  /\ currentTokenCalculationVersion = 1
  /\ debounceTimeout = 1
  /\ burst = 1
  /\ runs = << >>
  /\ toggles = << >>
  /\ ev = EvBase("constructor")

SpecIgnored == InitIgnored /\ [][Next]_vars

(* ----------------- a session after a toggle-all session --------------- *)
\* context.globalState "fileStates" as an earlier session left it that
\* listed the root and called toggleAllFiles
BulkFileStates ==
  << [ filePath |-> << "b" >>, isChecked |-> TRUE ],
     [ filePath |-> << "d" >>, isChecked |-> TRUE ] >>

\* the state after the constructor of the next session
InitBulk ==
  /\ disk = AllPaths
  /\ ops = 0
  /\ deletes = 0
  /\ fileStates = BulkFileStates
  /\ items = loadPersistedState(BulkFileStates, AllPaths)
  /\ totalTokenCount = 0
  /\ isCountingTokens = FALSE
  /\ currentTokenCalculationVersion = 1
  /\ debounceTimeout = 1
  /\ burst = 1
  /\ runs = << >>
  /\ toggles = << >>
  /\ ev = EvBase("constructor")

SpecBulk == InitBulk /\ [][Next]_vars

(* ---------------- the listing and the sort on drawn inputs ------------- *)
\* the sequences of at most MaxEntries different members of S
RECURSIVE SeqsOf(_, _)
SeqsOf(S, k) ==
  IF k = 0 THEN { << >> }
  ELSE LET shorter == SeqsOf(S, k - 1)
       IN  shorter \cup
           { Append(q, x) : q \in { r \in shorter : Len(r) = k - 1 }, x \in S }

Distinct(q) == \A i, j \in 1..Len(q) : q[i] = q[j] => i = j

\* what readdir may report for the root: names in any order
ListingInputs == { q \in SeqsOf(Range(NameOrder), MaxEntries) : Distinct(q) }

\* children arrays: nodes of either kind in any order, one per path
ChildPool ==
  { FileItem(<< n >>, k, FALSE) : n \in { "b", "d", "e", "g" }, k \in BOOLEAN }
ChildrenInputs ==
  { q \in SeqsOf(ChildPool, MaxEntries) :
      \A i, j \in 1..Len(q) : q[i].filePath = q[j].filePath => i = j }

\* either readdir has returned entries for a listing of the root (ev.files),
\* or a children array is about to be sorted (items holds the array)
InitListing ==
  /\ disk = AllPaths
  /\ ops = 0
  /\ deletes = 0
  /\ fileStates = << >>
  /\ totalTokenCount = 0
  /\ isCountingTokens = FALSE
  /\ currentTokenCalculationVersion = 1
  /\ debounceTimeout = 1
  /\ burst = 1
  /\ runs = << >>
  /\ toggles = << >>
  /\ \/ /\ items = << >>
        /\ \E q \in ListingInputs :
             ev = [ EvBase("readdir") EXCEPT !.files = EntryPaths(Root, q) ]
     \/ /\ items \in ChildrenInputs
        /\ ev = EvBase("children")

\* getChildren from the return of readdir on: the loop and the sort
ListStep ==
  /\ ev.op = "readdir"
  /\ LET entries == [ i \in 1..Len(ev.files) |-> BaseName(ev.files[i]) ]
         out == ListEntries(Root, entries, FALSE,
                  [ items |-> items, children |-> << >>, calls |-> 0 ])
     IN  /\ items' = out.items
         /\ ev' = [ EvBase("getChildren") EXCEPT
                      !.path = Root, !.files = ev.files,
                      !.list = SortChildren(out.children) ]
  /\ UNCHANGED << disk, ops, deletes, fileStates, totalTokenCount,
                  isCountingTokens, currentTokenCalculationVersion,
                  debounceTimeout, burst, runs, toggles >>

\* children.sort(...) on the array in items
SortStep ==
  /\ ev.op = "children"
  /\ ev' = [ EvBase("sort") EXCEPT !.list = SortChildren(items) ]
  /\ UNCHANGED << disk, ops, deletes, fileStates, items, totalTokenCount,
                  isCountingTokens, currentTokenCalculationVersion,
                  debounceTimeout, burst, runs, toggles >>

NextListing == ListStep \/ SortStep

SpecListing == InitListing /\ [][NextListing]_vars

(* ----------------------------- generateFile --------------------------- *)
\* A string is a sequence of characters; a run of characters without "{",
\* "}", "$" and "&" is kept as one element. "{name}" is three elements.
Ph(name) == << "{", name, "}" >>

\* the replacement text String.prototype.replace builds from a replacement
\* string: "$$" stands for "$" and "$&" for the matched text (the inputs
\* drawn here hold no other "$" pattern)
RECURSIVE GetSubstitution(_, _)
GetSubstitution(matched, replacement) ==
  IF replacement = << >> THEN << >>
  ELSE IF Len(replacement) >= 2 /\ replacement[1] = "$" /\ replacement[2] = "$"
  THEN << "$" >> \o GetSubstitution(matched, SubSeq(replacement, 3, Len(replacement)))
  ELSE IF Len(replacement) >= 2 /\ replacement[1] = "$" /\ replacement[2] = "&"
  THEN matched \o GetSubstitution(matched, SubSeq(replacement, 3, Len(replacement)))
  ELSE << Head(replacement) >> \o GetSubstitution(matched, Tail(replacement))

\* s.replace(/{name}/g, value): every match, left to right, not overlapping;
\* the inserted text is not scanned again by the same call
RECURSIVE ReplaceAll(_, _, _)
ReplaceAll(s, name, value) ==
  IF Len(s) < 3 THEN s
  ELSE IF SubSeq(s, 1, 3) = Ph(name)
  THEN GetSubstitution(Ph(name), value) \o ReplaceAll(SubSeq(s, 4, Len(s)), name, value)
  ELSE << Head(s) >> \o ReplaceAll(Tail(s), name, value)

\* the workspace generateFile runs on
workspaceRoot == << "/w" >>
GenFiles == { << "src", "a.ts" >>, << "b" >> }
GenPaths == GenFiles \cup { << "src" >> }

\* the characters of a file name, its extension kept as one element
NameChars(n) == IF n = "a.ts" THEN << "a", ".ts" >> ELSE << n >>

\* path.relative(workspaceRoot, fullFilePath) with forward slashes
RECURSIVE relativePath(_)
relativePath(p) ==
  IF Len(p) = 1 THEN NameChars(p[1])
  ELSE NameChars(p[1]) \o << "/" >> \o relativePath(Tail(p))

fullFilePath(p) == workspaceRoot \o << "/" >> \o relativePath(p)
fileNameWithExtension(p) == NameChars(BaseName(p))
fileExtension(p) ==
  LET c == fileNameWithExtension(p)
  IN  IF Len(c) >= 2 THEN << c[Len(c)] >> ELSE << >>
fileName(p) ==
  LET c == fileNameWithExtension(p)
  IN  SubSeq(c, 1, Len(c) - Len(fileExtension(p)))
sourcePath(p) == << "/" >> \o relativePath(p)

\* the six replace calls on the block template, fileContent last
formattedBlock(blockTemplate, p, fileContent) ==
  LET s1 == ReplaceAll(blockTemplate, "fileNameWithExtension", fileNameWithExtension(p))
      s2 == ReplaceAll(s1, "rawFilePath", sourcePath(p))
      s3 == ReplaceAll(s2, "fileName", fileName(p))
      s4 == ReplaceAll(s3, "fileExtension", fileExtension(p))
      s5 == ReplaceAll(s4, "fullPath", fullFilePath(p))
  IN  ReplaceAll(s5, "fileContent", fileContent)

\* contents.join(this.blockSeparator)
RECURSIVE joinedBlocks(_, _)
joinedBlocks(contents, blockSeparator) ==
  IF contents = << >> THEN << >>
  ELSE IF Len(contents) = 1 THEN contents[1]
  ELSE contents[1] \o blockSeparator \o joinedBlocks(Tail(contents), blockSeparator)

\* string | null
Null == [ isNull |-> TRUE, text |-> << >> ]
Str(s) == [ isNull |-> FALSE, text |-> s ]

\* a wrapper that is applied whatever it is
UseWrapperAlways(wrapperTemplate) == TRUE
\* if (this.wrapperTemplate)
UseWrapper(wrapperTemplate) == ~wrapperTemplate.isNull /\ wrapperTemplate.text # << >>

\* new Date().toISOString()
timestamp == << "2026-11-04T00:00:00.000Z" >>

\* the five replace calls on the wrapper template, blocks first
wrapped(wrapperTemplate, joined, fileCount, outputFileNameWithExtension) ==
  LET s1 == ReplaceAll(wrapperTemplate, "blocks", joined)
      s2 == ReplaceAll(s1, "timestamp", timestamp)
      s3 == ReplaceAll(s2, "fileCount", << ToString(fileCount) >>)
      s4 == ReplaceAll(s3, "workspaceRoot", workspaceRoot)
  IN  ReplaceAll(s4, "outputFileName", outputFileNameWithExtension)

finalOutput(wrapperTemplate, contents, blockSeparator, fileCount, outName) ==
  IF UseWrapper(wrapperTemplate)
  THEN wrapped(wrapperTemplate.text, joinedBlocks(contents, blockSeparator),
               fileCount, outName)
  ELSE joinedBlocks(contents, blockSeparator)

\* the message of the error fs.promises.readFile rejects with: a failure of
\* open names the path, a failure of read does not
ReadErrorMessage(code, p) ==
  IF code = "EISDIR" THEN << "EISDIR: illegal operation on a directory, read" >>
  ELSE << code, ", open '" >> \o fullFilePath(p) \o << "'" >>

\* the rejections of readFile on p
ReadErrors(p, dsk) == IF p \in dsk THEN { "EACCES", "EISDIR" } ELSE { "ENOENT" }

\* the configuration loadConfig reads
DefaultBlockTemplate ==
  << "<file name=\"" >> \o Ph("fileNameWithExtension") \o << "\">\n<source>" >>
  \o Ph("rawFilePath") \o << "</source>\n<file_content><![CDATA[\n" >>
  \o Ph("fileContent") \o << "\n]]>\n</file_content>\n</file>" >>
ExampleBlockTemplate ==
  << "<file name=\"" >> \o Ph("fileNameWithExtension") \o << "\">" >>
  \o Ph("fileContent") \o << "</file>" >>
AllBlockTemplate ==
  Ph("fileName") \o Ph("fileExtension") \o << " " >> \o Ph("fullPath")
  \o << " " >> \o Ph("other") \o Ph("fileContent") \o Ph("fileName")
\* a template with a blank line before and after the content
BlankLinesBlockTemplate == << "\n" >> \o Ph("fileContent") \o << "\n", "\n" >>
BlockTemplates ==
  { DefaultBlockTemplate, ExampleBlockTemplate, AllBlockTemplate,
    BlankLinesBlockTemplate }
\* promptTower.outputFormat.blockTrimLines (the default)
blockTrimLines == TRUE
BlockSeparators == { << "\n" >>, << >> }
DefaultWrapperTemplate ==
  << "<context>\n<files>\n" >> \o Ph("blocks") \o << "\n</files>\n</context>" >>
AllWrapperTemplate ==
  Ph("timestamp") \o << " " >> \o Ph("fileCount") \o << " " >>
  \o Ph("workspaceRoot") \o << " " >> \o Ph("outputFileName") \o Ph("blocks")
WrapperTemplates ==
  { Null, Str(<< >>), Str(DefaultWrapperTemplate), Str(AllWrapperTemplate) }
outputExtension == << "txt" >>

\* what a file may hold: up to MaxPieces of these, one after the other
ContentPieces ==
  { << "X" >>, Ph("fileName"), Ph("fileContent"), Ph("blocks"),
    Ph("timestamp"), Ph("fileCount"), << "$", "$" >>, << "$", "&" >> }
RECURSIVE Concat(_)
Concat(q) == IF q = << >> THEN << >> ELSE Head(q) \o Concat(Tail(q))
ContentInputs == { Concat(q) : q \in SeqsOf(ContentPieces, MaxPieces) }

\* what the user types into the input box (nothing, or a name)
InputAnswers == { << >>, << "out" >> }

\* the state of a generateFile call: where it is (pc), the configuration,
\* what the files hold, the reads, the rendered blocks, and what it has
\* shown, written and opened
GenBase(blockTemplate, blockSeparator, wrapperTemplate, content) ==
  [ op |-> "constructor", pc |-> "idle",
    blockTemplate |-> blockTemplate, blockSeparator |-> blockSeparator,
    wrapperTemplate |-> wrapperTemplate, content |-> content,
    checkedFiles |-> << >>, outName |-> << >>, reads |-> << >>,
    contents |-> << >>, finalOutput |-> << >>, failed |-> 0, code |-> "",
    messages |-> << >>, written |-> << >>, opened |-> << >>, shown |-> FALSE ]

\* the tree holds the two files, each checked or not
GenSelections ==
  { << FileItem(<< "src", "a.ts" >>, FALSE, c1), FileItem(<< "b" >>, FALSE, c2) >> :
      c1 \in BOOLEAN, c2 \in BOOLEAN }

InitGenerate ==
  /\ disk = GenPaths
  /\ ops = 0
  /\ deletes = 0
  /\ fileStates = << >>
  /\ totalTokenCount = 0
  /\ isCountingTokens = FALSE
  /\ currentTokenCalculationVersion = 1
  /\ debounceTimeout = 1
  /\ burst = 1
  /\ runs = << >>
  /\ toggles = << >>
  /\ items \in GenSelections
  /\ \E bt \in BlockTemplates, bs \in BlockSeparators, wt \in WrapperTemplates,
        ca \in ContentInputs :
       ev = GenBase(bt, bs, wt,
                    [ p \in GenFiles |-> IF p = << "b" >> THEN << "Y" >> ELSE ca ])

GenUnchanged ==
  UNCHANGED << ops, fileStates, items, totalTokenCount, isCountingTokens,
               currentTokenCalculationVersion, debounceTimeout, burst, runs,
               toggles >>

\* generateFile up to the await of showInputBox
generateFile ==
  /\ ev.pc = "idle"
  /\ LET checkedFiles == getCheckedFiles(items, disk)
     IN  ev' = IF Len(checkedFiles) = 0
               THEN [ ev EXCEPT !.op = "generateFile", !.pc = "returned",
                        !.messages = Append(@, [ kind |-> "warning",
                                                 text |-> << "No files selected!" >> ]) ]
               ELSE [ ev EXCEPT !.op = "generateFile", !.pc = "input",
                        !.checkedFiles = checkedFiles ]
  /\ UNCHANGED << disk, deletes >>
  /\ GenUnchanged

\* showInputBox returns; every callback of checkedFiles.map runs up to its
\* await of readFile
showInputBox(answer) ==
  /\ ev.pc = "input"
  /\ LET fileNameRaw == IF answer = << >> THEN << "context" >> ELSE answer
     IN  ev' = [ ev EXCEPT !.op = "showInputBox", !.pc = "reading",
                   !.outName = fileNameRaw \o << "." >> \o outputExtension,
                   !.reads = [ i \in 1..Len(ev.checkedFiles) |-> "pending" ],
                   !.contents = [ i \in 1..Len(ev.checkedFiles) |-> << >> ] ]
  /\ UNCHANGED << disk, deletes >>
  /\ GenUnchanged

\* a readFile resolves: the block is rendered; with the last one Promise.all
\* resolves, the output is built and writeFile is called (a read that is
\* still pending when Promise.all has rejected changes nothing any more)
ReadFileResolves(i) ==
  /\ ev.pc = "reading"
  /\ i \in 1..Len(ev.reads)
  /\ ev.reads[i] = "pending"
  /\ ev.checkedFiles[i] \in disk
  /\ LET p == ev.checkedFiles[i]
         reads == [ ev.reads EXCEPT ![i] = "ok" ]
         contents == [ ev.contents EXCEPT
                         ![i] = formattedBlock(ev.blockTemplate, p, ev.content[p]) ]
         all == \A j \in 1..Len(reads) : reads[j] = "ok"
     IN  ev' = IF all
               THEN [ ev EXCEPT !.op = "readFile", !.pc = "writing",
                        !.reads = reads, !.contents = contents,
                        !.finalOutput =
                           finalOutput(ev.wrapperTemplate, contents,
                                       ev.blockSeparator, Len(ev.checkedFiles),
                                       ev.outName) ]
               ELSE [ ev EXCEPT !.op = "readFile", !.reads = reads,
                        !.contents = contents ]
  /\ UNCHANGED << disk, deletes >>
  /\ GenUnchanged

\* a readFile rejects: the first rejection rejects Promise.all and the catch
\* block shows the error
ReadFileRejects(i, code) ==
  /\ ev.pc = "reading"
  /\ i \in 1..Len(ev.reads)
  /\ ev.reads[i] = "pending"
  /\ code \in ReadErrors(ev.checkedFiles[i], disk)
  /\ LET reads == [ ev.reads EXCEPT ![i] = "failed" ]
     IN  ev' = [ ev EXCEPT !.op = "readFile", !.pc = "returned",
                   !.reads = reads, !.failed = i, !.code = code,
                   !.messages = Append(@,
                      [ kind |-> "error",
                        text |-> << "Error generating file: " >>
                                 \o ReadErrorMessage(code, ev.checkedFiles[i]) ]) ]
  /\ UNCHANGED << disk, deletes >>
  /\ GenUnchanged

\* writeFile resolves; openTextDocument is called
writeFile ==
  /\ ev.pc = "writing"
  /\ ev' = [ ev EXCEPT !.op = "writeFile", !.pc = "opening",
               !.written = Append(@, [ path |-> workspaceRoot \o << "/" >> \o ev.outName,
                                       text |-> ev.finalOutput ]) ]
  /\ UNCHANGED << disk, deletes >>
  /\ GenUnchanged

\* openTextDocument resolves; showTextDocument is called
openTextDocument ==
  /\ ev.pc = "opening"
  /\ ev' = [ ev EXCEPT !.op = "openTextDocument", !.pc = "showing",
               !.opened = Append(@, workspaceRoot \o << "/" >> \o ev.outName) ]
  /\ UNCHANGED << disk, deletes >>
  /\ GenUnchanged

\* showTextDocument resolves and generateFile returns
showTextDocument ==
  /\ ev.pc = "showing"
  /\ ev' = [ ev EXCEPT !.op = "showTextDocument", !.pc = "returned", !.shown = TRUE ]
  /\ UNCHANGED << disk, deletes >>
  /\ GenUnchanged

\* a file is deleted on disk while generateFile is suspended
DeleteWhileGenerating(p) ==
  /\ ev.pc \in { "input", "reading" }
  /\ p \in disk
  /\ deletes < MaxDeletes
  /\ disk' = disk \ {p}
  /\ deletes' = deletes + 1
  /\ ev' = [ ev EXCEPT !.op = "deleteFile" ]
  /\ GenUnchanged

NextGenerate ==
  \/ generateFile
  \/ \E answer \in InputAnswers : showInputBox(answer)
  \/ \E i \in 1..2 : ReadFileResolves(i)
  \/ \E i \in 1..2, code \in { "ENOENT", "EACCES", "EISDIR" } : ReadFileRejects(i, code)
  \/ writeFile
  \/ openTextDocument
  \/ showTextDocument
  \/ \E p \in GenFiles : DeleteWhileGenerating(p)

SpecGenerate == InitGenerate /\ [][NextGenerate]_vars

(* --------------------------- GitHubPRsProvider ------------------------ *)
\* the open pull requests of the repository
PRNumbers == { 1, 2 }

\* the diff getPullRequestDiff returns for PR n to a fetch started in load
\* generation g (the generation tells a diff fetched before a reload)
RawDiff(n, g) == << "diff", n, g >>
NoDiff == << >>

\* calculatePRTokens(diff)
calculatePRTokens(diff) == IF diff = NoDiff THEN 0 ELSE 10 * diff[2]

RECURSIVE SumPRTokens(_, _)
SumPRTokens(S, cache) ==
  IF S = {} THEN 0
  ELSE LET n == CHOOSE x \in S : TRUE
       IN  calculatePRTokens(cache[n]) + SumPRTokens(S \ {n}, cache)

Cached(cache) == { n \in PRNumbers : cache[n] # NoDiff }

\* the fields of the provider after a first loadPRs has listed the open pull
\* requests, with the fetches that are suspended (fetches), the load
\* generation (gen), the updates fired by the last step (pubs) and what the
\* last getSelectedPRDetails returned (details)
PRBase ==
  [ op |-> "loadPRs", prs |-> PRNumbers, loaded |-> TRUE, isLoading |-> FALSE,
    selectedPRs |-> {}, prCache |-> [ n \in PRNumbers |-> NoDiff ],
    activeFetches |-> {}, totalPRTokens |-> 0, apiClient |-> TRUE,
    fetches |-> {}, gen |-> 0, pubs |-> << >>,
    details |-> [ n \in {} |-> NoDiff ], n |-> 0 ]

\* updateTokenCount() without the selection test: the total over the cache
PRUpdateTokenCountAllCached(s) ==
  LET total == SumPRTokens(Cached(s.prCache), s.prCache)
  IN  [ s EXCEPT !.totalPRTokens = total,
                 !.pubs = Append(@, [ totalTokens |-> total,
                                      selectedCount |-> Cardinality(s.selectedPRs),
                                      isCounting |-> s.activeFetches # {} ]) ]

\* updateTokenCount(): the total over the selected pull requests that are
\* cached, and the update it fires
PRUpdateTokenCount(s) ==
  LET total == SumPRTokens(s.selectedPRs \cap Cached(s.prCache), s.prCache)
  IN  [ s EXCEPT !.totalPRTokens = total,
                 !.pubs = Append(@, [ totalTokens |-> total,
                                      selectedCount |-> Cardinality(s.selectedPRs),
                                      isCounting |-> s.activeFetches # {} ]) ]

\* fetchAndCachePRDiff(prNumber) without the activeFetches test
fetchAndCachePRDiffNoActiveTest(s, prNumber) ==
  IF s.prCache[prNumber] # NoDiff THEN s
  ELSE IF ~s.apiClient THEN s
  ELSE [ PRUpdateTokenCount([ s EXCEPT !.activeFetches = @ \cup {prNumber} ])
           EXCEPT !.fetches = @ \cup { [ n |-> prNumber, gen |-> s.gen ] } ]

\* fetchAndCachePRDiff(prNumber) up to its await of getPullRequestDiff
fetchAndCachePRDiff(s, prNumber) ==
  IF s.prCache[prNumber] # NoDiff THEN s
  ELSE IF prNumber \in s.activeFetches THEN s
  ELSE IF ~s.apiClient THEN s
  ELSE [ PRUpdateTokenCount([ s EXCEPT !.activeFetches = @ \cup {prNumber} ])
           EXCEPT !.fetches = @ \cup { [ n |-> prNumber, gen |-> s.gen ] } ]

PRStep(op, n) == [ ev EXCEPT !.op = op, !.n = n, !.pubs = << >> ]

PRUnchanged ==
  UNCHANGED << disk, ops, deletes, fileStates, items, totalTokenCount,
               isCountingTokens, currentTokenCalculationVersion,
               debounceTimeout, burst, runs, toggles >>

InitPRs ==
  /\ disk = AllPaths
  /\ ops = 0
  /\ deletes = 0
  /\ fileStates = << >>
  /\ items = << >>
  /\ totalTokenCount = 0
  /\ isCountingTokens = FALSE
  /\ currentTokenCalculationVersion = 1
  /\ debounceTimeout = 1
  /\ burst = 1
  /\ runs = << >>
  /\ toggles = << >>
  /\ ev = PRBase

\* togglePRSelection(pr) up to its await
togglePRSelection(n) ==
  /\ n \in ev.prs
  /\ LET s == PRStep("togglePRSelection", n)
     IN  ev' = IF n \in s.selectedPRs
               THEN PRUpdateTokenCount([ s EXCEPT !.selectedPRs = @ \ {n} ])
               ELSE fetchAndCachePRDiff(
                      PRUpdateTokenCount([ s EXCEPT !.selectedPRs = @ \cup {n} ]), n)
  /\ PRUnchanged

\* getPullRequestDiff resolves: the diff is cached, then the finally block
FetchResolves(f) ==
  /\ f \in ev.fetches
  /\ LET s == PRStep("fetchResolves", f.n)
         diff == RawDiff(f.n, f.gen)
     IN  ev' = PRUpdateTokenCount(
                 [ s EXCEPT !.prCache[f.n] = diff,
                            !.activeFetches = @ \ {f.n},
                            !.fetches = @ \ {f} ])
  /\ PRUnchanged

\* getPullRequestDiff rejects: the catch block, then the finally block
FetchRejects(f) ==
  /\ f \in ev.fetches
  /\ LET s == PRStep("fetchRejects", f.n)
     IN  ev' = PRUpdateTokenCount(
                 [ s EXCEPT !.activeFetches = @ \ {f.n}, !.fetches = @ \ {f} ])
  /\ PRUnchanged

clearAllSelections ==
  /\ LET s == PRStep("clearAllSelections", 0)
     IN  ev' = IF s.selectedPRs = {} THEN s
               ELSE PRUpdateTokenCount([ s EXCEPT !.selectedPRs = {} ])
  /\ PRUnchanged

\* getSelectedPRDetails(): the diffs of the selected pull requests it returns
getSelectedPRDetails ==
  /\ LET s == PRStep("getSelectedPRDetails", 0)
     IN  ev' = [ s EXCEPT !.details =
                   [ n \in s.selectedPRs \cap Cached(s.prCache) |-> s.prCache[n] ] ]
  /\ PRUnchanged

\* reloadPRs() up to the first await of loadPRs; repoInfo is known, so the
\* new client is created before that await
reloadPRs ==
  /\ ev.gen < MaxReloads
  /\ ~ev.isLoading
  /\ LET s == PRStep("reloadPRs", 0)
     IN  ev' = [ PRUpdateTokenCount(
                   [ s EXCEPT !.loaded = FALSE, !.prs = {},
                              !.prCache = [ n \in PRNumbers |-> NoDiff ],
                              !.selectedPRs = {} ])
                 EXCEPT !.isLoading = TRUE, !.apiClient = TRUE, !.gen = @ + 1 ]
  /\ PRUnchanged

\* loadPRs: listPullRequests resolves (the list) or rejects (no list)
LoadReturns(ok) ==
  /\ ev.isLoading
  /\ ev' = [ PRStep("loadPRs", 0) EXCEPT
               !.prs = IF ok THEN PRNumbers ELSE {},
               !.loaded = TRUE, !.isLoading = FALSE ]
  /\ PRUnchanged

NextPRs ==
  \/ \E n \in PRNumbers : togglePRSelection(n)
  \/ \E f \in ev.fetches : FetchResolves(f)
  \/ \E f \in ev.fetches : FetchRejects(f)
  \/ clearAllSelections
  \/ getSelectedPRDetails
  \/ reloadPRs
  \/ \E ok \in BOOLEAN : LoadReturns(ok)

SpecPRs == InitPRs /\ [][NextPRs]_vars

\* a request getPullRequestDiff has sent is answered or fails: the promise
\* of each fetch in flight settles
SettleFetch(n) ==
  \E f \in ev.fetches : f.n = n /\ (FetchResolves(f) \/ FetchRejects(f))

SpecPRsFair == SpecPRs /\ \A n \in PRNumbers : WF_vars(SettleFetch(n))

(* -------------------------- PromptHistoryService ---------------------- *)
PromptTypes == { "prefix", "suffix" }
WorkspacePaths == { "/w1", "/w2" }

\* the texts that are passed in: up to MaxText characters, blanks among them
TextInputs == SeqsOf({ " ", "a" }, MaxText)

\* String.prototype.trim
RECURSIVE trimStart(_)
trimStart(text) ==
  IF text # << >> /\ Head(text) = " " THEN trimStart(Tail(text)) ELSE text
RECURSIVE trimEnd(_)
trimEnd(text) ==
  IF text # << >> /\ text[Len(text)] = " "
  THEN trimEnd(SubSeq(text, 1, Len(text) - 1)) ELSE text
trimNot(text) == text
trim(text) == trimEnd(trimStart(text))

\* a search that finds nothing
findIndexNever(history, trimmed, workspacePath) == 0
\* history.findIndex(entry => entry.text === trimmed &&
\* entry.workspacePath === workspacePath); 0 stands for -1
findIndex(history, trimmed, workspacePath) ==
  LET hits == { i \in 1..Len(history) :
                  history[i].text = trimmed /\ history[i].workspacePath = workspacePath }
  IN  IF hits = {} THEN 0 ELSE CHOOSE i \in hits : \A j \in hits : i <= j

\* addToHistory on the stored histories h at time now: the histories after
\* it and what it returns
addToHistory(h, type, text, workspacePath, now) ==
  LET trimmed == trim(text)
      history == h[type]
      existingIndex == findIndex(history, trimmed, workspacePath)
      spliced == IF existingIndex # 0 THEN RemoveAt(history, existingIndex)
                 ELSE history
      entry == [ text |-> trimmed, workspacePath |-> workspacePath,
                 timestamp |-> now ]
  IN  IF trimmed = << >> THEN [ h |-> h, result |-> FALSE ]
      ELSE [ h |-> [ h EXCEPT ![type] = << entry >> \o spliced ],
             result |-> TRUE ]

\* the stored histories (globalState), the clock, and the calls of
\* addToHistory the last step made, each with what it returned
HistoryBase ==
  [ op |-> "constructor", h |-> [ t \in PromptTypes |-> << >> ], now |-> 0,
    calls |-> << >> ]

HistoryCall(type, text, workspacePath, result) ==
  [ type |-> type, text |-> text, workspacePath |-> workspacePath,
    result |-> result ]

InitHistory ==
  /\ disk = AllPaths
  /\ ops = 0
  /\ deletes = 0
  /\ fileStates = << >>
  /\ items = << >>
  /\ totalTokenCount = 0
  /\ isCountingTokens = FALSE
  /\ currentTokenCalculationVersion = 1
  /\ debounceTimeout = 1
  /\ burst = 1
  /\ runs = << >>
  /\ toggles = << >>
  /\ ev = HistoryBase

HistoryUnchanged ==
  UNCHANGED << disk, ops, deletes, fileStates, items, totalTokenCount,
               isCountingTokens, currentTokenCalculationVersion,
               debounceTimeout, burst, runs, toggles >>

\* a call of addToHistory by the extension
AddToHistory(type, text, workspacePath) ==
  /\ ev.now < MaxCalls
  /\ LET out == addToHistory(ev.h, type, text, workspacePath, ev.now + 1)
     IN  ev' = [ op |-> "addToHistory", h |-> out.h, now |-> ev.now + 1,
                 calls |-> << HistoryCall(type, text, workspacePath, out.result) >> ]
  /\ HistoryUnchanged

\* savePrompts: addToHistory for the prefix, then for the suffix
savePrompts(prefix, suffix, workspacePath) ==
  /\ ev.now < MaxCalls
  /\ LET o1 == addToHistory(ev.h, "prefix", prefix, workspacePath, ev.now + 1)
         o2 == addToHistory(o1.h, "suffix", suffix, workspacePath, ev.now + 1)
     IN  ev' = [ op |-> "savePrompts", h |-> o2.h, now |-> ev.now + 1,
                 calls |-> << HistoryCall("prefix", prefix, workspacePath, o1.result),
                              HistoryCall("suffix", suffix, workspacePath, o2.result) >> ]
  /\ HistoryUnchanged

NextHistory ==
  \/ \E type \in PromptTypes, text \in TextInputs, w \in WorkspacePaths :
       AddToHistory(type, text, w)
  \/ \E prefix \in TextInputs, suffix \in TextInputs, w \in WorkspacePaths :
       savePrompts(prefix, suffix, w)

SpecHistory == InitHistory /\ [][NextHistory]_vars

(* ------------------- patterns and the exclusion list ------------------ *)
\* the names and patterns that are matched
PatternChars == { "*", ".", "/", "a" }
PatternInputs == SeqsOf(PatternChars, MaxPattern)

\* lines of .gitignore and entries of promptTower.ignore as they are written
RawLines ==
  { << >>, << " " >>, << "#", "c" >>, << " ", "#" >>, << "o", "u", "t" >>,
    << " ", "o", "u", "t", " " >>, << "a", "/" >> }
LineInputs == SeqsOf(RawLines, MaxLines)

\* getGitIgnorePatterns on the lines of an existing .gitignore
gitIgnoreLines(lines) ==
  SelectSeq([ i \in 1..Len(lines) |-> trim(lines[i]) ],
            LAMBDA line : line # << >> /\ ~StartsWith(line, << "#" >>))

\* manualIgnores.map((p) => p.trim()).filter((p) => p)
manualLines(ignore) ==
  SelectSeq([ i \in 1..Len(ignore) |-> trim(ignore[i]) ],
            LAMBDA line : line # << >>)

\* loadConfig: the excluded patterns for a useGitignore setting, the lines
\* of .gitignore and the promptTower.ignore setting
loadConfig(useGitIgnore, lines, ignore) ==
  Dedupe([ i \in 1..Len(standardIgnores) |-> Chars(standardIgnores[i]) ]
         \o (IF useGitIgnore THEN gitIgnoreLines(lines) ELSE << >>)
         \o manualLines(ignore))

\* a call that is to be made with its arguments, and what it returned once
\* it was made
PatternBase ==
  [ op |-> "matchesPattern", done |-> FALSE, fileName |-> << >>,
    pattern |-> << >>, useGitIgnore |-> TRUE, gitignore |-> << >>,
    ignore |-> << >>, res |-> FALSE, excludedPatterns |-> << >> ]

InitPatterns ==
  /\ disk = AllPaths
  /\ ops = 0
  /\ deletes = 0
  /\ fileStates = << >>
  /\ items = << >>
  /\ totalTokenCount = 0
  /\ isCountingTokens = FALSE
  /\ currentTokenCalculationVersion = 1
  /\ debounceTimeout = 1
  /\ burst = 1
  /\ runs = << >>
  /\ toggles = << >>
  /\ \/ \E name \in PatternInputs, pattern \in PatternInputs :
          ev = [ PatternBase EXCEPT !.fileName = name, !.pattern = pattern ]
     \/ \E u \in BOOLEAN, lines \in LineInputs, ignore \in LineInputs :
          ev = [ PatternBase EXCEPT !.op = "loadConfig", !.useGitIgnore = u,
                                   !.gitignore = lines, !.ignore = ignore ]

\* the call of matchesPattern
MatchesPattern ==
  /\ ev.op = "matchesPattern"
  /\ ~ev.done
  /\ ev' = [ ev EXCEPT !.done = TRUE,
                       !.res = matchesChars(ev.fileName, ev.pattern) ]
  /\ HistoryUnchanged

\* the call of loadConfig
LoadConfig ==
  /\ ev.op = "loadConfig"
  /\ ~ev.done
  /\ ev' = [ ev EXCEPT !.done = TRUE,
                       !.excludedPatterns =
                          loadConfig(ev.useGitIgnore, ev.gitignore, ev.ignore) ]
  /\ HistoryUnchanged

NextPatterns ==
  \/ MatchesPattern
  \/ LoadConfig

SpecPatterns == InitPatterns /\ [][NextPatterns]_vars

(* ------------------- extension.ts: the webview preview ----------------- *)
\* the module-level state of extension.ts after activate() has run and its
\* promptTower.showTowerUI command has created the panel: whether a provider
\* exists, the panel, isPreviewValid, the number of panels created so far
\* (each creation subscribes one more tokenUpdate listener), whether the
\* webview has reported ready, the suspended copyToClipboard handlers, the
\* messages posted to the webview by the last step, isPreviewContentValid of
\* the webview script, and whether a token, prefix or suffix change arrived
\* since the generation of the context string shown began (changedSince)
PreviewBase(provider) ==
  [ op |-> "activate", providerInstance |-> provider, webviewPanel |-> TRUE,
    isPreviewValid |-> FALSE, created |-> 1, ready |-> FALSE,
    handlers |-> << >>, posted |-> << >>,
    isPreviewContentValid |-> FALSE, changedSince |-> FALSE ]

\* webviewPanel.webview.postMessage({command}) and what the message listener
\* of the webview script does with it
Post(s, command) ==
  [ s EXCEPT !.posted = Append(@, command),
             !.isPreviewContentValid =
                IF command = "updatePreview" THEN TRUE
                ELSE IF command = "invalidatePreview" THEN FALSE
                ELSE @ ]

RECURSIVE PostTimes(_, _, _)
PostTimes(s, command, k) ==
  IF k = 0 THEN s ELSE PostTimes(Post(s, command), command, k - 1)

invalidateWebviewPreview(s) ==
  IF s.webviewPanel /\ s.isPreviewValid
  THEN [ Post(s, "invalidatePreview") EXCEPT !.isPreviewValid = FALSE ]
  ELSE s

\* the state the extension sends on reveal and on webviewReady
ResendState(s) ==
  invalidateWebviewPreview(
    Post(Post(Post(s, "updatePrefix"), "updateSuffix"), "tokenUpdate"))

\* a token, prefix or suffix change arrives: the string shown is no longer
\* the current one, nor is one whose generation is under way
Change(s) ==
  [ s EXCEPT !.changedSince = TRUE,
             !.handlers = [ i \in DOMAIN @ |->
                              IF @[i].phase = "generate"
                              THEN [ @[i] EXCEPT !.dirty = TRUE ]
                              ELSE @[i] ] ]

PreviewStep(op) == [ ev EXCEPT !.op = op, !.posted = << >> ]

PreviewUnchanged ==
  UNCHANGED << disk, ops, deletes, fileStates, items, totalTokenCount,
               isCountingTokens, currentTokenCalculationVersion,
               debounceTimeout, burst, runs, toggles >>

InitPreview ==
  /\ disk = AllPaths
  /\ ops = 0
  /\ deletes = 0
  /\ fileStates = << >>
  /\ items = << >>
  /\ totalTokenCount = 0
  /\ isCountingTokens = FALSE
  /\ currentTokenCalculationVersion = 1
  /\ debounceTimeout = 1
  /\ burst = 1
  /\ runs = << >>
  /\ toggles = << >>
  /\ \E provider \in BOOLEAN : ev = PreviewBase(provider)

\* the promptTower.showTowerUI command: reveal the panel or create one
createOrShowWebviewPanel ==
  /\ ev.webviewPanel \/ ev.created < MaxPanels
  /\ LET s == PreviewStep("createOrShowWebviewPanel")
     IN  ev' = IF s.webviewPanel
               THEN LET r == [ s EXCEPT !.isPreviewValid = FALSE ]
                    IN  IF r.providerInstance THEN ResendState(r) ELSE r
               ELSE [ s EXCEPT !.isPreviewValid = FALSE, !.webviewPanel = TRUE,
                               !.created = @ + 1, !.ready = FALSE,
                               !.isPreviewContentValid = FALSE ]
  /\ PreviewUnchanged

\* the user closes the panel
onDidDispose ==
  /\ ev.webviewPanel
  /\ ev' = [ PreviewStep("onDidDispose") EXCEPT !.webviewPanel = FALSE ]
  /\ PreviewUnchanged

\* the webview script has loaded and posts webviewReady
webviewReady ==
  /\ ev.webviewPanel
  /\ ~ev.ready
  /\ LET s == [ PreviewStep("webviewReady") EXCEPT !.ready = TRUE ]
     IN  ev' = IF s.providerInstance /\ s.webviewPanel THEN ResendState(s) ELSE s
  /\ PreviewUnchanged

\* the user edits the prefix or the suffix: the input listener of the
\* webview invalidates its preview and posts the text, the extension stores
\* it and invalidates
updateText(command) ==
  /\ ev.webviewPanel
  /\ LET s == [ PreviewStep(command) EXCEPT !.isPreviewContentValid = FALSE ]
     IN  ev' = IF s.providerInstance
               THEN invalidateWebviewPreview(Change(s))
               ELSE s
  /\ PreviewUnchanged

\* the provider fires tokenUpdateEmitter: the listener of activate(), then
\* the listener each panel creation subscribed
tokenUpdateListener ==
  /\ ev.providerInstance
  /\ LET s == Change(PreviewStep("tokenUpdate"))
     IN  ev' = IF s.webviewPanel
               THEN PostTimes(invalidateWebviewPreview(Post(s, "tokenUpdate")),
                              "tokenUpdate", s.created)
               ELSE s
  /\ PreviewUnchanged

\* the copy button: the webview clears its preview and posts
\* copyToClipboard; the handler runs up to await copyContextToClipboard()
copyToClipboard ==
  /\ ev.webviewPanel
  /\ Len(ev.handlers) < MaxHandlers
  /\ LET s == [ PreviewStep("copyToClipboard") EXCEPT
                  !.isPreviewContentValid = FALSE ]
     IN  ev' = IF s.providerInstance /\ s.webviewPanel
               THEN [ s EXCEPT !.handlers =
                        Append(@, [ phase |-> "copy", dirty |-> FALSE ]) ]
               ELSE [ s EXCEPT !.isPreviewValid = FALSE ]
  /\ PreviewUnchanged

\* copyContextToClipboard() settles: the handler goes on to await
\* generateContextString(), or its catch block runs
CopySettles(i, ok) ==
  /\ i \in DOMAIN ev.handlers
  /\ ev.handlers[i].phase = "copy"
  /\ LET s == PreviewStep("copySettles")
     IN  ev' = IF ok
               THEN [ s EXCEPT !.handlers[i].phase = "generate" ]
               ELSE [ s EXCEPT !.handlers = RemoveAt(@, i),
                               !.isPreviewValid = FALSE ]
  /\ PreviewUnchanged

\* generateContextString() settles: the handler posts updatePreview and sets
\* the flag; if the call rejected, or the panel is gone so that
\* webviewPanel.webview throws, the catch block clears the flag
GenerateSettles(i, ok) ==
  /\ i \in DOMAIN ev.handlers
  /\ ev.handlers[i].phase = "generate"
  /\ LET s == [ PreviewStep("generateSettles") EXCEPT
                  !.handlers = RemoveAt(@, i) ]
     IN  ev' = IF ok /\ s.webviewPanel
               THEN [ Post(s, "updatePreview") EXCEPT
                        !.isPreviewValid = TRUE,
                        !.changedSince = ev.handlers[i].dirty ]
               ELSE [ s EXCEPT !.isPreviewValid = FALSE ]
  /\ PreviewUnchanged

NextPreview ==
  \/ createOrShowWebviewPanel
  \/ onDidDispose
  \/ webviewReady
  \/ \E command \in { "updatePrefix", "updateSuffix" } : updateText(command)
  \/ tokenUpdateListener
  \/ copyToClipboard
  \/ \E i \in 1..MaxHandlers, ok \in BOOLEAN : CopySettles(i, ok)
  \/ \E i \in 1..MaxHandlers, ok \in BOOLEAN : GenerateSettles(i, ok)

SpecPreview == InitPreview /\ [][NextPreview]_vars




(* ------------------------------ properties ---------------------------- *)
\* the step was one of an updateTokenCount run resumed from an await
RunStep == ev.op = "run"

\* the token count the tokenizer yields for the files of S it accepts
TokenSum(S) == SumTokens(S \ encoderRejects)

\* C1: a run that was superseded while it was suspended (its captured version
\* is no longer the live one) publishes nothing and leaves the aggregate as it
\* is when it resumes; the run that completes with the live version publishes
\* exactly one payload, {count: its own total, isCounting: false}, and that
\* total becomes the aggregate.
C1_SupersededRunNeverPublishes ==
  [][ ev'.op = "run" =>
        IF ev'.ver # currentTokenCalculationVersion
        THEN /\ ev'.pubs = << >>
             /\ ev'.res = "cancelled"
             /\ totalTokenCount' = totalTokenCount
             /\ isCountingTokens' = isCountingTokens
        ELSE ev'.res = "final" =>
               /\ ev'.pubs = << Payload(SumTokens(ev'.counted), FALSE) >>
               /\ totalTokenCount' = SumTokens(ev'.counted)
               /\ isCountingTokens' = FALSE ]_vars

\* run B, started while run A was suspended, has published its final result,
\* and A has ended without a word
C1_Witness ==
  /\ RunStep
  /\ ev.res = "final"
  /\ ev.list = << TRUE >>
  /\ ev.pubs # << >>
  /\ runs = << >>

\* C2: however many debouncedUpdateTokenCount calls precede it, at most one
\* timeout is armed; when it fires exactly one updateTokenCount starts, no
\* timeout of the burst is left to start another, and the run works on the
\* checked files as getCheckedFiles reports them at that moment.
C2_BurstYieldsOneRun ==
  [][ /\ debounceTimeout' = (IF burst' > 0 THEN 1 ELSE 0)
      /\ ev'.op = "updateTokenCount" =>
           /\ burst > 0
           /\ debounceTimeout' = 0
           /\ ev'.res = (IF getCheckedFiles(items, disk) = << >>
                         THEN "empty" ELSE "started")
           /\ ev'.files = getCheckedFiles(items, disk)
           /\ ev'.res = "started" =>
                /\ Len(runs') = Len(runs) + 1
                /\ runs'[Len(runs')].files = getCheckedFiles(items, disk)
                /\ runs'[Len(runs')].ver = currentTokenCalculationVersion ]_vars

\* a burst of two calls has led to one run, over a non-empty selection
C2_Witness ==
  /\ ev.op = "updateTokenCount"
  /\ ev.res = "started"
  /\ ev.n >= 2
  /\ debounceTimeout = 0

\* C3 as stated: the count a completing run publishes is the sum of the
\* tokenizer outputs over all the files getCheckedFiles returned at its start.
C3_CountIsSumOverStartSet ==
  (RunStep /\ ev.res = "final") =>
    ev.pubs = << Payload(TokenSum(Range(ev.files)), FALSE) >>

\* C3: the count a completing run publishes is the sum of the tokenizer
\* outputs over the files of its start set that it could read and tokenize:
\* every file of the set that is still on disk and that the tokenizer accepts
\* is counted, no file outside the set and no rejected file is, and a file of
\* the set that vanished during the run is counted only if it was read before.
C3_CountIsSumOverReadFiles ==
  (RunStep /\ ev.res = "final") =>
    /\ ev.pubs = << Payload(SumTokens(ev.counted), FALSE) >>
    /\ totalTokenCount = SumTokens(ev.counted)
    /\ (Range(ev.files) \ encoderRejects) \cap disk \subseteq ev.counted
    /\ ev.counted \subseteq Range(ev.files) \ encoderRejects

\* a run over a checked file has completed and published that file's tokens
C3_Witness ==
  /\ RunStep
  /\ ev.res = "final"
  /\ ev.counted # {}
  /\ totalTokenCount = TokenSum(Range(ev.files))
  /\ totalTokenCount > 0

\* nothing of the program is pending: no timeout is armed and no
\* updateTokenCount or toggleCheck call is suspended
Quiescent == debounceTimeout = 0 /\ runs = << >> /\ toggles = << >>

\* C4: once the selection stops changing on an unchanging disk, the aggregate
\* settles on {count: the token sum of the checked files, isCounting: false}.
\* In a quiescent state nothing is left that could still publish, so there
\* the aggregate must already be the settled one.
C4_QuiescentAggregateIsCurrent ==
  (Quiescent /\ deletes = 0) =>
    /\ ~isCountingTokens
    /\ totalTokenCount = TokenSum(Range(getCheckedFiles(items, disk)))

\* C5: the toggleAllFiles step that turns every node off increments the
\* version, sets and publishes {count: 0, isCounting: false} in that same
\* step, arms no timeout and starts no run (no file is read); every run
\* suspended at that moment is stale from then on, and a stale run publishes
\* nothing.
C5_ClearAllIsImmediate ==
  [][ /\ (ev'.op = "toggleAllFiles" /\ ev'.res = "off") =>
           /\ AllChecked(items)
           /\ \A i \in 1..Len(items') : ~items'[i].isChecked
           /\ currentTokenCalculationVersion' = currentTokenCalculationVersion + 1
           /\ totalTokenCount' = 0
           /\ isCountingTokens' = FALSE
           /\ ev'.pubs = << Payload(0, FALSE) >>
           /\ debounceTimeout' = debounceTimeout
           /\ runs' = runs
           /\ \A i \in 1..Len(runs') :
                runs'[i].ver < currentTokenCalculationVersion'
      /\ currentTokenCalculationVersion' >= currentTokenCalculationVersion
      /\ \A i \in 1..Len(runs') : runs'[i].ver <= currentTokenCalculationVersion'
      /\ (ev'.op = "run" /\ ev'.ver < currentTokenCalculationVersion) =>
           ev'.pubs = << >> ]_vars

\* every node was checked, a run was suspended, and toggleAllFiles has just
\* cleared the selection
C5_Witness ==
  /\ ev.op = "toggleAllFiles"
  /\ ev.res = "off"
  /\ items # << >>
  /\ runs # << >>
  /\ totalTokenCount = 0

\* the step completes an operation that mutates the selection
CompletesOp(e) ==
  \/ e.op \in { "toggleAllFiles", "refresh", "getChildren" }
  \/ e.op = "toggleCheck" /\ e.res \in { "done", "cancelled", "unchanged" }

\* C6: an operation that has changed which nodes are checked has incremented
\* the version by the time it completes and, unless it is the clearing
\* toggleAllFiles, leaves exactly one timeout armed.
C6_EveryMutationInvalidates ==
  [][ LET changed ==
            IF ev'.op = "toggleCheck" THEN ev'.t.mutated
            ELSE Checked(items') # Checked(items)
      IN  (CompletesOp(ev') /\ changed) =>
            /\ currentTokenCalculationVersion' > currentTokenCalculationVersion
            /\ ev'.res # "off" => debounceTimeout' = 1 ]_vars

\* p lies below the directory dir
IsUnder(p, dir) == Len(p) > Len(dir) /\ SubSeq(p, 1, Len(dir)) = dir

\* an entry on the way from dir down to p matches an exclusion pattern
ExcludedBelow(p, dir) == \E k \in (Len(dir) + 1)..Len(p) : IsExcluded(p[k])

IsCheckedIn(its, p) == Has(its, p) /\ Get(its, p).isChecked

\* the files below dir that exceed the size threshold
OverThreshold(dir) ==
  { p \in AllFiles \cap disk :
      /\ IsUnder(p, dir)
      /\ ~ExcludedBelow(p, dir)
      /\ SizeKB(p) > maxFileSizeWarningKB }

\* the step completed a toggleCheck that turned a directory on, declined at
\* the gate for its one over-threshold descendant, no other operation having
\* touched the tree or the disk meanwhile
PartialCascade(e) ==
  /\ e.op = "toggleCheck"
  /\ e.res = "done"
  /\ e.t.isDir
  /\ e.t.newState
  /\ e.t.clean
  /\ Cardinality(OverThreshold(e.t.path)) = 1
  /\ e.t.declined = OverThreshold(e.t.path)

\* C7: after such a cascade the directory is checked, the declined file is
\* unchecked, every other descendant that is not excluded is checked, and the
\* recount was invalidated (version incremented, one timeout armed).
C7_PartialCascadeIsKept ==
  [][ PartialCascade(ev') =>
        /\ IsCheckedIn(items', ev'.t.path)
        /\ \A p \in disk :
             (IsUnder(p, ev'.t.path) /\ ~ExcludedBelow(p, ev'.t.path)) =>
               /\ Has(items', p)
               /\ Get(items', p).isChecked = (p \notin ev'.t.declined)
        /\ \A p \in Keys(items') : ~ExcludedBelow(p, Root)
        /\ ev'.t.childrenCancelled
        /\ currentTokenCalculationVersion' = currentTokenCalculationVersion + 1
        /\ debounceTimeout' = 1 ]_vars

\* a cascade over d has ended with g declined and e and f checked
C7_Witness ==
  /\ PartialCascade(ev)
  /\ ev.t.declined = { <<"d", "g">> }
  /\ IsCheckedIn(items, <<"d", "e", "f">>)
  /\ ~IsCheckedIn(items, <<"d", "g">>)

\* the node stored for p, or none
NodeOf(its, p) == IF Has(its, p) THEN << Get(its, p) >> ELSE << >>

ObeysGate(t) ==
  /\ \A k \in 1..Len(t.log) :
       (t.log[k].k = "set" /\ t.log[k].v /\ ~IsDirectory(t.log[k].p)) =>
         \E j \in 1..(k - 1) : t.log[j] = LogGate(t.log[k].p)
  /\ \A j, k \in 1..Len(t.log) :
       (t.log[j].k = "gate" /\ t.log[k] = t.log[j]) => j = k
  /\ t.originalState => \A k \in 1..Len(t.log) : t.log[k].k # "gate"

\* C9: every toggleCheck call, suspended or just completed, obeys the gate,
\* and its own steps check no file it has not asked about.
C9_GatePerFileOnCheckOn ==
  /\ \A i \in 1..Len(toggles) : ObeysGate(toggles[i])
  /\ ev.op = "toggleCheck" => ObeysGate(ev.t)
  /\ (ev.op = "toggleCheck" /\ ev.res \in { "done", "cancelled" }) =>
       \A k \in 1..Len(ev.t.log) :
         (ev.t.log[k].k = "set" /\ ev.t.clean) =>
           IsCheckedIn(items, ev.t.log[k].p) = ev.t.log[k].v

\* a cascade has asked about f and about g, each on its own
C9_Witness ==
  /\ ev.op = "toggleCheck"
  /\ ev.res = "done"
  /\ ev.t.isDir
  /\ \E j, k \in 1..Len(ev.t.log) :
       /\ ev.t.log[j] = LogGate(<< "d", "e", "f" >>)
       /\ ev.t.log[k] = LogGate(<< "d", "g" >>)
  /\ IsCheckedIn(items, << "d", "e", "f" >>)

\* C10: toggleAllFiles gives every node of the map the same flag, false when
\* all were checked (also when the map is empty) and true otherwise, keeps the
\* nodes and their order, and asks the size gate about no file.
C10_ToggleAllSetsOneState ==
  [][ ev'.op = "toggleAllFiles" =>
        LET newState == ~(\A i \in 1..Len(items) : items[i].isChecked)
        IN  /\ Len(items') = Len(items)
            /\ \A i \in 1..Len(items') :
                 /\ items'[i].filePath = items[i].filePath
                 /\ items'[i].isChecked = newState
            /\ ev'.res = (IF newState THEN "on" ELSE "off")
            /\ Len(toggles') = Len(toggles)
            /\ \A j \in 1..Len(toggles') : toggles'[j].log = toggles[j].log ]_vars

\* toggleAllFiles has found checked nodes and unchecked ones and has checked
\* them all, the over-threshold file b included
C10_Witness ==
  /\ ev.op = "toggleAllFiles"
  /\ ev.res = "on"
  /\ ev.n >= 1
  /\ Len(items) > ev.n
  /\ IsCheckedIn(items, << "b" >>)
  /\ \A i \in 1..Len(items) : items[i].isChecked

\* C11: getCheckedFiles returns the paths of the nodes that are checked, are
\* files and exist on disk, and only those, each once and in the order of the
\* map; an updateTokenCount that starts works on exactly that sequence.
C11_CheckedFilesAreExact ==
  LET r == getCheckedFiles(items, disk)
  IN  /\ Range(r) = { p \in AllFiles \cap disk : IsCheckedIn(items, p) }
      /\ \A i, j \in 1..Len(r) :
           i < j => /\ r[i] # r[j]
                    /\ IndexOf(items, r[i]) < IndexOf(items, r[j])
      /\ (ev.op = "updateTokenCount" /\ ev.res = "started") => ev.files = r

\* the map holds a checked directory, a checked file that has vanished and an
\* unchecked file, and getCheckedFiles returns the one checked file left
C11_Witness ==
  /\ getCheckedFiles(items, disk) = << << "d", "g" >> >>
  /\ IsCheckedIn(items, << "d" >>)
  /\ IsCheckedIn(items, << "d", "e", "f" >>)
  /\ << "d", "e", "f" >> \notin disk
  /\ Has(items, << "b" >>)
  /\ ~IsCheckedIn(items, << "b" >>)

\* C12: a file that was deleted on disk is in no later getCheckedFiles result
\* (so no run that starts later works on it) and in no later getChildren
\* listing, whether or not its node is still in the map.
C12_DeletedFileIsGone ==
  \A p \in AllFiles \ disk :
    /\ p \notin Range(getCheckedFiles(items, disk))
    /\ ev.op = "updateTokenCount" => p \notin Range(ev.files)
    /\ ev.op = "getChildren" =>
         \A i \in 1..Len(ev.list) : ev.list[i].filePath # p

\* b was checked and was deleted; its node is still in the map, checked, and
\* the listing of the root that followed shows d without b
C12_Witness ==
  /\ << "b" >> \notin disk
  /\ IsCheckedIn(items, << "b" >>)
  /\ ev.op = "getChildren"
  /\ ev.path = Root
  /\ Len(ev.list) = 1
  /\ ev.list[1].filePath = << "d" >>
  /\ getCheckedFiles(items, disk) = << << "d", "e", "f" >> >>

\* the step completed the second of two toggleCheck calls on one node, the
\* second started right after the first had completed, no other operation
\* having changed the tree or the disk during either
TwoToggles(e) ==
  /\ e.op = "toggleCheck"
  /\ e.res \in { "done", "cancelled", "unchanged" }
  /\ e.t.prev.ok
  /\ e.t.clean

\* C13 as stated: after two such calls the node has its original state, and
\* the count the recompute settles on (the token sum of the checked files) is
\* the one of the selection before the two calls.
C13_TwoTogglesRestore ==
  TwoToggles(ev) =>
    /\ IsCheckedIn(items, ev.path) = ev.t.prev.originalState
    /\ TokenSum(Range(getCheckedFiles(items, disk))) =
         TokenSum(ev.t.prev.sel0 \cap AllFiles \cap disk)

\* C13: after two such calls, neither declined at the size gate for the node
\* itself, the node has its original state; if it is a file the selection is
\* the original one (and so is the count it settles on); a call declined for
\* the node leaves it unchecked, whatever it was; and if the node is a
\* directory, every descendant on disk that is not excluded has the state of
\* the second call, unchecked if the user declined it, whatever it was before.
C13_TwoTogglesRestoreOwnState ==
  TwoToggles(ev) =>
    LET t == ev.t
        undeclined == ~t.userCancelled /\ ~t.prev.userCancelled
    IN  /\ undeclined => IsCheckedIn(items, ev.path) = t.prev.originalState
        /\ (undeclined /\ ~t.isDir) => Checked(items) = t.prev.sel0
        /\ t.userCancelled => ~IsCheckedIn(items, ev.path)
        /\ t.isDir =>
             \A q \in disk :
               (IsUnder(q, ev.path) /\ ~ExcludedBelow(q, ev.path)) =>
                 /\ Has(items, q)
                 /\ Get(items, q).isChecked = (t.newState /\ q \notin t.declined)

\* d was unchecked with f below it checked; d was toggled on and off again:
\* d is unchecked as before, f is unchecked now
C13_Witness ==
  /\ TwoToggles(ev)
  /\ ev.path = << "d" >>
  /\ ~ev.t.prev.originalState
  /\ << "d", "e", "f" >> \in ev.t.prev.sel0
  /\ ~IsCheckedIn(items, << "d" >>)
  /\ Has(items, << "d", "e", "f" >>)
  /\ ~IsCheckedIn(items, << "d", "e", "f" >>)

\* the paths of the nodes a listing returned
Listed(e) == { e.list[i].filePath : i \in 1..Len(e.list) }

Ordered(l) ==
  \A i, j \in 1..Len(l) :
    i < j =>
      \/ l[i].isDir /\ ~l[j].isDir
      \/ /\ l[i].isDir = l[j].isDir
         /\ NameRank(BaseName(l[i].filePath)) < NameRank(BaseName(l[j].filePath))

\* C15: getChildren returns one node for each entry readdir reported whose
\* name matches no exclusion pattern, of the entry's kind, and no other node,
\* directories before files and by label within each; children.sort returns
\* the nodes it was given, in that order.
C15_ListingIsFilteredAndSorted ==
  /\ ev.op = "getChildren" =>
       /\ Listed(ev) = { p \in Range(ev.files) : ~IsExcluded(BaseName(p)) }
       /\ Len(ev.list) = Cardinality(Listed(ev))
       /\ \A i \in 1..Len(ev.list) :
            ev.list[i].isDir = IsDirectory(ev.list[i].filePath)
       /\ Ordered(ev.list)
  /\ ev.op = "sort" =>
       /\ Range(ev.list) = Range(items)
       /\ Len(ev.list) = Len(items)
       /\ Ordered(ev.list)

\* readdir reported g, d, x.log in that order: the listing is d, g
C15_Witness ==
  /\ ev.op = "getChildren"
  /\ ev.files = << << "g" >>, << "d" >>, << "x.log" >> >>
  /\ Len(ev.list) = 2
  /\ ev.list[1].filePath = << "d" >>
  /\ ev.list[2].filePath = << "g" >>

\* C16: the nodes a getChildren step creates (the listed paths the map did
\* not know) carry the checked flag of the node of the listed directory,
\* false for the root; if they are checked, each of them has incremented the
\* version and one timeout is armed; if none is created checked, the step
\* leaves version and timeout alone.
C16_NewNodesInheritParentState ==
  [][ ev'.op = "getChildren" =>
        LET new == Listed(ev') \ Keys(items)
            parentChecked == IF ev'.path = Root THEN FALSE
                             ELSE Get(items, ev'.path).isChecked
        IN  /\ \A p \in new : Get(items', p).isChecked = parentChecked
            /\ (new # {} /\ parentChecked) =>
                 /\ currentTokenCalculationVersion' =
                      currentTokenCalculationVersion + Cardinality(new)
                 /\ debounceTimeout' = 1
            /\ (new = {} \/ ~parentChecked) =>
                 /\ currentTokenCalculationVersion' = currentTokenCalculationVersion
                 /\ debounceTimeout' = debounceTimeout ]_vars

\* the listing of the checked directory d has created e and g, both checked,
\* and has armed a timeout; b and d were created unchecked by the listing of
\* the root
C16_Witness ==
  /\ ev.op = "getChildren"
  /\ ev.path = << "d" >>
  /\ Listed(ev) = { << "d", "e" >>, << "d", "g" >> }
  /\ IsCheckedIn(items, << "d", "e" >>)
  /\ IsCheckedIn(items, << "d", "g" >>)
  /\ ~Has(items, << "d", "e", "f" >>)
  /\ debounceTimeout = 1
  /\ currentTokenCalculationVersion = 4

\* sub occurs in s, character for character
IsSubstring(sub, s) ==
  \E i \in 0..(Len(s) - Len(sub)) : SubSeq(s, i + 1, i + Len(sub)) = sub

\* C17: whatever a file holds, what it holds stands verbatim in the block
\* rendered for it and in the output that is written (the block templates
\* all hold {fileContent}; a wrapper that is applied holds {blocks}).
C17_ContentIsVerbatim ==
  \A i \in 1..Len(ev.reads) :
    ev.reads[i] = "ok" =>
      LET fileContent == ev.content[ev.checkedFiles[i]]
      IN  /\ IsSubstring(fileContent, ev.contents[i])
          /\ \A w \in Range(ev.written) :
                (UseWrapper(ev.wrapperTemplate)
                   => IsSubstring(Ph("blocks"), ev.wrapperTemplate.text))
                => IsSubstring(fileContent, w.text)

\* the placeholders of a block template and the value of each for a file
BlockPlaceholders ==
  { "fileNameWithExtension", "rawFilePath", "fileName", "fileExtension",
    "fullPath", "fileContent" }
BlockValue(name, p, fileContent) ==
  CASE name = "fileNameWithExtension" -> fileNameWithExtension(p)
    [] name = "rawFilePath" -> sourcePath(p)
    [] name = "fileName" -> fileName(p)
    [] name = "fileExtension" -> fileExtension(p)
    [] name = "fullPath" -> fullFilePath(p)
    [] OTHER -> fileContent

\* the template with every occurrence of a block placeholder exchanged for
\* the file's value and nothing else changed
RECURSIVE TemplateWithValues(_, _, _)
TemplateWithValues(t, p, fileContent) ==
  IF Len(t) < 3 THEN t
  ELSE IF t[1] = "{" /\ t[2] \in BlockPlaceholders /\ t[3] = "}"
  THEN BlockValue(t[2], p, fileContent)
       \o TemplateWithValues(SubSeq(t, 4, Len(t)), p, fileContent)
  ELSE << Head(t) >> \o TemplateWithValues(Tail(t), p, fileContent)

\* C18: the block rendered for a file is the block template with every
\* occurrence of the six placeholders exchanged for the file's value, and
\* nothing else changed.
C18_BlockIsTemplateWithValues ==
  \A i \in 1..Len(ev.reads) :
    ev.reads[i] = "ok" =>
      ev.contents[i] = TemplateWithValues(ev.blockTemplate, ev.checkedFiles[i],
                                          ev.content[ev.checkedFiles[i]])

\* every read of the call has resolved: the output has been built
AllRead(e) == e.reads # << >> /\ \A i \in 1..Len(e.reads) : e.reads[i] = "ok"

\* C19: with the wrapper template null, the output that is built and written
\* is the blocks rendered for the checked files, in the order of the checked
\* files in the tree, with the block separator between two blocks and
\* nothing before, between or after.
C19_NullWrapperGivesJoinedBlocks ==
  (ev.wrapperTemplate.isNull /\ AllRead(ev)) =>
    LET sel == SelectSeq(items, LAMBDA it : it.isChecked)
        block(i) == formattedBlock(ev.blockTemplate, sel[i].filePath,
                                   ev.content[sel[i].filePath])
        expected == IF Len(sel) = 1 THEN block(1)
                    ELSE block(1) \o ev.blockSeparator \o block(2)
    IN  /\ Len(ev.checkedFiles) = Len(sel)
        /\ ev.finalOutput = expected
        /\ \A w \in Range(ev.written) : w.text = expected

\* both files are checked, the separator is a line break, the wrapper is null
\* and the output has been written and opened
C19_Witness ==
  /\ ev.wrapperTemplate.isNull
  /\ ev.blockSeparator = << "\n" >>
  /\ ev.blockTemplate = DefaultBlockTemplate
  /\ ev.checkedFiles = << << "src", "a.ts" >>, << "b" >> >>
  /\ AllRead(ev)
  /\ Len(ev.written) = 1
  /\ Len(ev.opened) = 1
  /\ ev.pc = "returned"

\* C20: when a read of a checked file has failed, generateFile has returned,
\* an error message that holds the name of that file has been shown, and
\* nothing has been written or opened, whichever read failed and whichever
\* reads had resolved before.
C20_UnreadableFileAborts ==
  ev.failed # 0 =>
    /\ ev.pc = "returned"
    /\ \E i \in 1..Len(ev.messages) :
         /\ ev.messages[i].kind = "error"
         /\ IsSubstring(fileNameWithExtension(ev.checkedFiles[ev.failed]),
                        ev.messages[i].text)
    /\ ev.written = << >>
    /\ ev.opened = << >>

\* the run of version v among the suspended runs rs
RunOf(rs, v) == rs[CHOOSE j \in 1..Len(rs) : rs[j].ver = v]
IsRunning(rs, v) == \E j \in 1..Len(rs) : rs[j].ver = v

\* C21: when the read of a run's file fails (the file has vanished, or the
\* tokenizer rejects it), the file adds nothing to the run's total, a node
\* is removed from the map only for a vanished file, and the run, unless
\* superseded, goes on to its next file or publishes its final result.
C21_FileErrorIsSwallowed ==
  [][ \A i \in 1..Len(runs) :
        LET r == runs[i]
            f == r.files[r.idx]
        IN  ( /\ ev'.op = "run"
              /\ ev'.ver = r.ver
              /\ r.pc = "read"
              /\ (f \notin disk \/ f \in encoderRejects) ) =>
            /\ f \notin disk => ~Has(items', f)
            /\ f \in disk => NodeOf(items', f) = NodeOf(items, f)
            /\ r.ver = currentTokenCalculationVersion =>
                 \/ /\ ev'.res = "final"
                    /\ ev'.pubs = << Payload(r.total, FALSE) >>
                    /\ totalTokenCount' = r.total
                    /\ f \notin ev'.counted
                    /\ ~IsRunning(runs', r.ver)
                 \/ /\ ev'.res = "suspended"
                    /\ ev'.pubs = << >>
                    /\ IsRunning(runs', r.ver)
                    /\ RunOf(runs', r.ver).total = r.total
                    /\ RunOf(runs', r.ver).idx > r.idx
                    /\ f \notin RunOf(runs', r.ver).counted ]_vars

\* b vanished while the run was reading it: the run went on to d/e/f, has
\* published the tokens of d/e/f alone, and the node of b is gone
C21_Witness ==
  /\ ev.op = "run"
  /\ ev.res = "final"
  /\ ev.files = << << "b" >>, << "d", "e", "f" >> >>
  /\ << "b" >> \notin disk
  /\ ~Has(items, << "b" >>)
  /\ ev.counted = { << "d", "e", "f" >> }
  /\ ev.pubs = << Payload(Tokens(<< "d", "e", "f" >>), FALSE) >>
  /\ totalTokenCount = Tokens(<< "d", "e", "f" >>)
  /\ ~isCountingTokens

\* C22: at any time at most one updateTokenCount call has started and has
\* not yet returned.
C22_AtMostOneRun == Len(runs) <= 1

\* a directory and everything below it are deleted on disk by something
\* outside the program
DeleteDir(d) ==
  /\ StartOp
  /\ d \in disk
  /\ deletes < MaxDeletes
  /\ disk' = { p \in disk : p # d /\ ~IsUnder(p, d) }
  /\ deletes' = deletes + 1
  /\ toggles' = Touch(toggles, TRUE)
  /\ ev' = [ EvBase("deleteDir") EXCEPT !.path = d ]
  /\ UNCHANGED << fileStates, items, totalTokenCount,
                  isCountingTokens, currentTokenCalculationVersion,
                  debounceTimeout, burst, runs >>

NextFaults ==
  \/ Next
  \/ \E d \in AllDirs : DeleteDir(d)

\* the program in a workspace where directories vanish too
SpecFaults == Init /\ [][NextFaults]_vars

\* the await the suspended toggleCheck t is waiting on is going to fail: the
\* stat of checkFileSize on a file that has vanished, or the readdir of
\* toggleDirectoryChildren on a directory that has vanished
AwaitFails(t, dsk) ==
  IF t.stack = << >> THEN t.path \notin dsk
  ELSE LET fr == t.stack[Len(t.stack)]
       IN  IF fr.wait = "readdir" THEN fr.dir \notin dsk
           ELSE PathJoin(fr.dir, Head(fr.entries)) \notin dsk

\* C23: the step in which an await of a toggleCheck call fails ends the call
\* and changes nothing: the map, the persisted state, the version, the
\* timeout and the aggregate are what they were before the step.
C23_FailedStepAborts ==
  [][ \A i \in 1..Len(toggles) :
        LET t == toggles[i]
        IN  ( /\ ev'.op = "toggleCheck"
              /\ ev'.path = t.path
              /\ Len(toggles') <= Len(toggles)
              /\ \A j \in 1..Len(toggles) : j # i => toggles[j].path # t.path
              /\ AwaitFails(t, disk) ) =>
            /\ Len(toggles') < Len(toggles)
            /\ items' = items
            /\ fileStates' = fileStates
            /\ currentTokenCalculationVersion' = currentTokenCalculationVersion
            /\ debounceTimeout' = debounceTimeout
            /\ totalTokenCount' = totalTokenCount
            /\ isCountingTokens' = isCountingTokens ]_vars

\* C24: with blockTrimLines set, no block that is joined into the output
\* starts or ends with a blank line.
C24_BlocksAreTrimmed ==
  blockTrimLines =>
    \A i \in 1..Len(ev.reads) :
      ev.reads[i] = "ok" =>
        /\ ~StartsWith(ev.contents[i], << "\n" >>)
        /\ ~EndsWith(ev.contents[i], << "\n", "\n" >>)

\* C25: what getSelectedPRDetails returns holds one entry for every pull
\* request in the selection, and the entry carries that request's raw diff.
C25_DetailsCoverSelection ==
  ev.op = "getSelectedPRDetails" =>
    /\ DOMAIN ev.details = ev.selectedPRs
    /\ \A n \in DOMAIN ev.details : ev.details[n] # NoDiff

\* text is blank, or the history holds an entry with its trimmed text and
\* the workspace path
IsDuplicate(history, text, workspacePath) ==
  \E i \in 1..Len(history) :
    history[i].text = trim(text) /\ history[i].workspacePath = workspacePath

\* C26: addToHistory returns true exactly when the history has one entry
\* more than before; for a blank text and for a text whose trimmed form is
\* already stored with the workspace path it returns false and the stored
\* history is what it was.
C26_ReturnsTrueIffAdded ==
  [][ \A i \in 1..Len(ev'.calls) :
        LET c == ev'.calls[i]
            before == ev.h[c.type]
            after == ev'.h[c.type]
        IN  /\ c.result <=> Len(after) = Len(before) + 1
            /\ (trim(c.text) = << >> \/ IsDuplicate(before, c.text, c.workspacePath))
                 => (~c.result /\ after = before) ]_vars

\* no two entries of the history have the same text and workspace path
NoDuplicates(history) ==
  \A i, j \in 1..Len(history) :
    (history[i].text = history[j].text
       /\ history[i].workspacePath = history[j].workspacePath) => i = j

\* the text is not empty and has no blank at either end
IsTrimmed(text) ==
  text # << >> /\ Head(text) # " " /\ text[Len(text)] # " "

\* C27: whatever calls were made, neither history holds two entries with
\* the same text and workspace path, and every stored text is non-empty
\* without leading or trailing blanks.
C27_HistoriesAreDeduplicated ==
  \A t \in PromptTypes :
    /\ NoDuplicates(ev.h[t])
    /\ \A i \in 1..Len(ev.h[t]) : IsTrimmed(ev.h[t][i].text)

\* C27: a call of addToHistory for one type leaves the history of the
\* other type as it was.
C27_TypesAreSeparate ==
  [][ ev'.op = "addToHistory" =>
        \A t \in PromptTypes :
          t # ev'.calls[1].type => ev'.h[t] = ev.h[t] ]_vars

\* both parts of C27
C27_HistoryInvariant ==
  []C27_HistoriesAreDeduplicated /\ C27_TypesAreSeparate

\* a padded text was added again for the same workspace after another
\* entry, and the other type's history holds an entry of its own
C27_Witness ==
  /\ ev.op = "addToHistory"
  /\ ev.calls[1].text = << " ", "a" >>
  /\ ev.calls[1].type = "prefix"
  /\ Len(ev.h["prefix"]) = 2
  /\ ev.h["prefix"][1].text = << "a" >>
  /\ ev.h["prefix"][1].timestamp = MaxCalls
  /\ ev.h["prefix"][2].timestamp = 2
  /\ Len(ev.h["suffix"]) = 1

\* C28: a run over a non-empty set of checked files publishes, when it
\* starts, the count held before it together with isCounting = true, and
\* nothing else; while it is suspended on a file it publishes nothing; its
\* one publish with isCounting = false is the last thing it does and carries
\* the sum over all the files it counted.
C28_FirstPublishKeepsPreviousCount ==
  [][ /\ (ev'.op = "updateTokenCount" /\ ev'.res = "started") =>
            /\ ev'.files # << >>
            /\ ev'.pubs = << [ count |-> totalTokenCount, isCounting |-> TRUE ] >>
            /\ \E i \in 1..Len(runs') :
                  runs'[i].ver = ev'.ver /\ runs'[i].idx = 1 /\ runs'[i].total = 0
      /\ ev'.op = "run" =>
            /\ \E i \in 1..Len(runs) : runs[i].ver = ev'.ver
            /\ IF ev'.res = "final"
               THEN /\ ev'.pubs = << [ count |-> SumTokens(ev'.counted),
                                       isCounting |-> FALSE ] >>
                    /\ ~IsRunning(runs', ev'.ver)
               ELSE ev'.pubs = << >> ]_vars

\* a run starts while the count of an earlier run, which is not 0, is held
C28_Witness ==
  /\ ev.op = "updateTokenCount"
  /\ ev.res = "started"
  /\ totalTokenCount > 0
  /\ ev.pubs = << [ count |-> totalTokenCount, isCounting |-> TRUE ] >>

\* the suspended run with captured version v is superseded
IsSuperseded(rs, v, live) == IsRunning(rs, v) /\ v # live

\* C29: a run that resumes after it was superseded starts no further read:
\* it counts at most the file whose read was pending, then either abandons
\* at once or, when that file completed a batch of BatchSize, yields and
\* abandons when it resumes from the yield; in these steps it publishes
\* nothing and leaves the aggregate and the counting flag as they were.  A
\* run is suspended at a yield only after a positive multiple of BatchSize
\* files.
C29_SupersededRunAbandons ==
  [][ /\ (ev'.op = "run"
           /\ IsSuperseded(runs, ev'.ver, currentTokenCalculationVersion)) =>
            LET r == RunOf(runs, ev'.ver)
            IN  /\ ev'.pubs = << >>
                /\ totalTokenCount' = totalTokenCount
                /\ isCountingTokens' = isCountingTokens
                /\ IF IsRunning(runs', r.ver)
                   THEN LET r2 == RunOf(runs', r.ver)
                        IN  /\ r.pc = "read"
                            /\ r2.pc = "yield"
                            /\ r2.idx = r.idx + 1
                            /\ r2.counted \subseteq r.counted \cup { r.files[r.idx] }
                   ELSE ev'.res = "cancelled"
      /\ \A i \in 1..Len(runs') :
            runs'[i].pc = "yield" =>
              runs'[i].processed > 0 /\ runs'[i].processed % BatchSize = 0 ]_vars

\* a run that was superseded while it read the last file of its first batch
\* waits at the yield
C29_Witness ==
  /\ ev.op = "run"
  /\ ev.res = "suspended"
  /\ IsSuperseded(runs, ev.ver, currentTokenCalculationVersion)
  /\ RunOf(runs, ev.ver).pc = "yield"
  /\ RunOf(runs, ev.ver).processed = BatchSize

\* C30: matchesPattern answers true exactly for a non-empty pattern that
\* is the name, or is the name followed by "/", or starts with "*." while
\* the name ends with the pattern without its "*"; the list loadConfig
\* builds holds no pattern twice and no empty pattern.
C30_PatternRulesAndCleanList ==
  /\ (ev.op = "matchesPattern" /\ ev.done) =>
        (ev.res <=>
           /\ ev.pattern # << >>
           /\ \/ ev.pattern = ev.fileName
              \/ ev.pattern = ev.fileName \o << "/" >>
              \/ /\ Len(ev.pattern) >= 2
                 /\ ev.pattern[1] = "*"
                 /\ ev.pattern[2] = "."
                 /\ \E pre \in PatternInputs :
                      ev.fileName = pre \o Tail(ev.pattern))
  /\ (ev.op = "loadConfig" /\ ev.done) =>
        /\ Distinct(ev.excludedPatterns)
        /\ \A i \in 1..Len(ev.excludedPatterns) : ev.excludedPatterns[i] # << >>

\* a name matched by a wildcard pattern only
C30_Witness ==
  /\ ev.op = "matchesPattern"
  /\ ev.done
  /\ ev.pattern = << "*", ".", "a" >>
  /\ ev.fileName = << "/", ".", "a" >>
  /\ ev.res

\* C31: after addToHistory with a non-blank text the entry for the trimmed
\* text and the workspace path is the first of that type's history, the
\* other entries follow in the order they had, and the history is one
\* longer if the pair was new and as long as before if it was stored.
C31_MovesToFront ==
  [][ \A i \in 1..Len(ev'.calls) :
        LET c == ev'.calls[i]
            before == ev.h[c.type]
            after == ev'.h[c.type]
            others == SelectSeq(before, LAMBDA e :
                        ~(e.text = trim(c.text) /\ e.workspacePath = c.workspacePath))
        IN  trim(c.text) # << >> =>
              /\ after # << >>
              /\ after[1].text = trim(c.text)
              /\ after[1].workspacePath = c.workspacePath
              /\ Tail(after) = others
              /\ Len(after) = IF IsDuplicate(before, c.text, c.workspacePath)
                              THEN Len(before) ELSE Len(before) + 1 ]_vars

\* the entry that was stored behind another one was added again and is first
C31_Witness ==
  /\ ev.op = "addToHistory"
  /\ ev.calls[1].text = << "a" >>
  /\ ev.calls[1].type = "suffix"
  /\ Len(ev.h["suffix"]) = 2
  /\ ev.h["suffix"][1].text = << "a" >>
  /\ ev.h["suffix"][1].timestamp = MaxCalls
  /\ ev.h["suffix"][2].text = << "a", "a" >>
  /\ ev.h["suffix"][2].workspacePath = ev.h["suffix"][1].workspacePath
  /\ ev.h["suffix"][2].timestamp = 2

\* the step completes, accepted, a toggleCheck on a file that was started on
\* the unchecked file while another toggleCheck on it waited at the size
\* gate, and that other call was accepted and completed in the step before
SecondOverlappingToggleEnds ==
  /\ ev.op = "toggleCheck"
  /\ ev.res = "done"
  /\ ev.t.newState
  /\ ~ev.t.isDir
  /\ ev.path \notin ev.t.sel0
  /\ \E i \in 1..Len(toggles) :
        /\ toggles[i].path = ev.path
        /\ toggles[i].stack = << >>
        /\ ev.path \notin toggles[i].sel0
        /\ toggles' = RemoveAt(toggles, i)
  /\ ev'.op = "toggleCheck"
  /\ ev'.path = ev.path
  /\ ev'.res = "done"

\* C32: when two toggleCheck calls on an unchecked file overlap at the size
\* gate and both are accepted, the file is unchecked after the second has
\* completed, and the map holds one node for the path.
C32_OverlappingTogglesCancel ==
  [][ SecondOverlappingToggleEnds =>
        /\ ev.path \notin Checked(items')
        /\ Cardinality({ i \in 1..Len(items') : items'[i].filePath = ev.path }) = 1
    ]_vars

\* the toggleCheck call t waits for the answer of checkFileSize about p
GateWaits(t, p) ==
  IF t.stack = << >> THEN t.path = p
  ELSE LET fr == t.stack[Len(t.stack)]
       IN  fr.wait = "gate" /\ PathJoin(fr.dir, Head(fr.entries)) = p

\* C33: a step that turns a file on disk that is larger than the warning
\* threshold from not checked to checked is a toggleAllFiles, or the step of
\* a toggleCheck call that had asked checkFileSize about that very file.
C33_LargeFileCheckedOnlyAtGate ==
  [][ \A p \in AllFiles \cap disk :
        (/\ SizeKB(p) > maxFileSizeWarningKB
         /\ ~IsCheckedIn(items, p)
         /\ IsCheckedIn(items', p)) =>
          \/ ev'.op = "toggleAllFiles"
          \/ /\ ev'.op = "toggleCheck"
             /\ \E i \in 1..Len(toggles) : GateWaits(toggles[i], p) ]_vars

\* an entry name of the path p matches one of the excluded patterns
HasExcludedName(p) ==
  \E k \in 1..Len(p), i \in 1..Len(excludedPatterns) :
    matchesPattern(p[k], excludedPatterns[i])

\* C34: with nothing persisted at the start, the map never holds a node
\* whose path has an entry name that matches an exclusion pattern, and
\* getCheckedFiles() returns no excluded file and no file below an excluded
\* directory.
C34_ExcludedNeverSelected ==
  /\ \A p \in Keys(items) : ~HasExcludedName(p)
  /\ \A p \in Range(getCheckedFiles(items, disk)) : ~HasExcludedName(p)

\* everything was checked by toggleAllFiles and by a cascade over d, the
\* excluded d/x.log and the file in .git being on disk
C34_Witness ==
  /\ ev.op = "toggleCheck"
  /\ ev.res = "done"
  /\ ev.path = << "d" >>
  /\ IsCheckedIn(items, << "d", "e", "f" >>)
  /\ IsCheckedIn(items, << "b" >>)
  /\ { GitFile, << "d", "x.log" >> } \subseteq disk
  /\ { GitFile, << "d", "x.log" >>, << ".git" >> } \cap Keys(items) = {}

\* C35: with persistence on, no file deleted and no toggleCheck call
\* suspended, getCheckedFiles() returns the same files right after refresh()
\* as right before it.
C35_RefreshKeepsSelection ==
  [][ (ev'.op = "refresh" /\ persistState /\ deletes = 0 /\ toggles = << >>) =>
        Range(getCheckedFiles(items', disk')) = Range(getCheckedFiles(items, disk))
    ]_vars

\* the PRTokenUpdate that is consistent with the fields of s
ConsistentUpdate(s) ==
  [ totalTokens |-> SumPRTokens(s.selectedPRs \cap Cached(s.prCache), s.prCache),
    selectedCount |-> Cardinality(s.selectedPRs),
    isCounting |-> s.fetches # {} ]

C36_TotalIsConsistent ==
  ev.totalPRTokens =
    SumPRTokens(ev.selectedPRs \cap Cached(ev.prCache), ev.prCache)

C36_LastUpdateIsConsistent ==
  [][ /\ ev'.pubs # << >> => ev'.pubs[Len(ev'.pubs)] = ConsistentUpdate(ev')
      /\ ( \/ ev'.selectedPRs # ev.selectedPRs
           \/ ev'.prCache # ev.prCache
           \/ ev'.fetches # ev.fetches ) => ev'.pubs # << >>
    ]_vars

\* C36: at every return to the event loop totalPRTokens is the sum of the
\* cached token counts of the selected pull requests; every step that
\* publishes ends with an update that carries that sum, the size of the
\* selection and whether a diff fetch is in flight, and every step that
\* changes the selection, the cache or the fetches in flight publishes.
C36_PRTotalsConsistent == []C36_TotalIsConsistent /\ C36_LastUpdateIsConsistent

\* PR 1 is selected and cached, PR 2 is selected and still being fetched
C36_Witness ==
  /\ ev.selectedPRs = { 1, 2 }
  /\ ev.prCache[1] # NoDiff
  /\ ev.prCache[2] = NoDiff
  /\ \E f \in ev.fetches : f.n = 2
  /\ ev.totalPRTokens = 10
  /\ ev.pubs # << >>
  /\ ev.pubs[Len(ev.pubs)].isCounting

\* activeFetches holds exactly the numbers of the fetches in flight, one
\* fetch for each
C37_OneFetchPerPR ==
  /\ ev.activeFetches = { f.n : f \in ev.fetches }
  /\ \A f, g \in ev.fetches : f.n = g.n => f = g

\* togglePRSelection published twice: after the selection and after it
\* added the number to activeFetches, so it started a fetch
FetchStarted == ev'.op = "togglePRSelection" /\ Len(ev'.pubs) = 2

C37_StartsOnlyWhenNeeded ==
  [][ FetchStarted =>
        /\ ev.prCache[ev'.n] = NoDiff
        /\ ev'.n \notin ev.activeFetches
        /\ \A f \in ev.fetches : f.n # ev'.n
    ]_vars

\* C37: at most one diff fetch per pull request is in flight, a fetch starts
\* only for a pull request that is neither cached nor being fetched, and
\* every number in activeFetches eventually leaves it, so that activeFetches
\* is empty once no fetch is in flight.
C37_FetchesAreSingleAndSettle ==
  /\ []C37_OneFetchPerPR
  /\ C37_StartsOnlyWhenNeeded
  /\ \A n \in PRNumbers : (n \in ev.activeFetches) ~> (n \notin ev.activeFetches)

\* PR 1 was selected again after a reload while the fetch started before the
\* reload is still in flight: no second fetch was started
C37_Witness ==
  /\ ev.op = "togglePRSelection"
  /\ ev.n = 1
  /\ 1 \in ev.selectedPRs
  /\ Len(ev.pubs) = 1
  /\ ev.prCache[1] = NoDiff
  /\ \E f \in ev.fetches : f.n = 1 /\ f.gen < ev.gen

\* C38: every diff in the cache was obtained by a fetch started after the
\* last reloadPRs (in the current load generation).
C38_NoDiffFromBeforeReload ==
  \A n \in PRNumbers : ev.prCache[n] # NoDiff => ev.prCache[n][3] = ev.gen

\* C39: while a panel exists, isPreviewValid is true only if no token,
\* prefix or suffix change arrived since the generation of the context
\* string shown began.
C39_ValidOnlyIfUnchanged ==
  (ev.webviewPanel /\ ev.isPreviewValid) => ~ev.changedSince

\* C40: while a panel exists, a step that takes isPreviewValid from true to
\* false posts invalidatePreview to the webview.
C40_InvalidationIsPosted ==
  [][ (ev.webviewPanel /\ ev'.webviewPanel /\ ev.isPreviewValid /\ ~ev'.isPreviewValid) =>
        \E i \in DOMAIN ev'.posted : ev'.posted[i] = "invalidatePreview"
    ]_vars

====
